---- MODULE Spec2Model ----
(***************************************************************************)
(* A model of the eaux library: the Maybe (Something / Nothing) and Result *)
(* (Success / Failure) containers of src/src/maybe.ts and                  *)
(* src/src/result.ts.                                                      *)
(*                                                                         *)
(* Containers are objects with identity: the heap is the sequence of every *)
(* container constructed so far and a reference is an index into it.  The  *)
(* private fields #value / #error are the record fields value / error.     *)
(* Every public function and method is an operator from (heap, receiver,   *)
(* arguments) to a record [heap, out, calls]: the heap after the call, the *)
(* outcome (a returned value or a thrown error) and the arguments with     *)
(* which the caller's callback was invoked, in order.                      *)
(***************************************************************************)
EXTENDS Naturals, Sequences, FiniteSets

VARIABLES heap, lastOp, script, results

vars == <<heap, lastOp, script, results>>

(***************************************************************************)
(* Bounds of the model.                                                    *)
(***************************************************************************)
\* Containers on the heap, the Nothing singleton included.
MaxHeap == 3
\* Largest number a callback may produce.
MaxNum == 42

(***************************************************************************)
(* JavaScript values.  t is the tag, n the number or the heap index of an  *)
(* object, s the text of a string or the name of a function.               *)
(***************************************************************************)
Null == [t |-> "null", n |-> 0, s |-> ""]

Undefined == [t |-> "undefined", n |-> 0, s |-> ""]

Num(k) == [t |-> "number", n |-> k, s |-> ""]

Str(z) == [t |-> "string", n |-> 0, s |-> z]

Bool(b) == [t |-> "boolean", n |-> IF b THEN 1 ELSE 0, s |-> ""]

Ref(i) == [t |-> "object", n |-> i, s |-> ""]

Fn(name) == [t |-> "function", n |-> 0, s |-> name]

\* The field a class does not declare (Nothing has no #value, Success no #error).
NoField == [t |-> "nofield", n |-> 0, s |-> ""]

\* JavaScript's typeof: null is an "object".
TypeOf(v) == IF v.t = "null" THEN "object" ELSE v.t

(***************************************************************************)
(* Outcomes of a call.                                                     *)
(***************************************************************************)
Return(v) == [kind |-> "return", value |-> v, name |-> "", message |-> ""]

Throw(e) == [kind |-> "throw", value |-> Undefined, name |-> e.name, message |-> e.message]

Ret(h, v, calls) == [heap |-> h, out |-> Return(v), calls |-> calls]

Thr(h, e, calls) == [heap |-> h, out |-> Throw(e), calls |-> calls]

\* The error classes of src/error/*.ts: an Error subclass keeps the message it is given.
ExpectationError(message) == [name |-> "ExpectationError", message |-> message]

ImproperUnwrapError(message) == [name |-> "ImproperUnwrapError", message |-> message]

UnreachableCodeError(message) == [name |-> "UnreachableCodeError", message |-> message]

\* The messages of ImproperUnwrapError are written without the back quotes the source
\* puts around the class name (a TLA+ string cannot hold one).

\* What node:assert/strict's ok throws on a falsy value.
AssertionError == [name |-> "AssertionError", message |-> "The expression evaluated to a falsy value"]

(***************************************************************************)
(* utilities/assert: `await import('node:assert/strict')` and its ok, or a *)
(* no-op when the import fails.  The package runs on node >= 20            *)
(* (package.json engines), where the builtin always resolves; maybe.ts     *)
(* imports node:util statically, so a host without node builtins does not  *)
(* load the library at all.  assert(c) is TRUE when the call returns and   *)
(* FALSE when it throws AssertionError.                                    *)
(***************************************************************************)
NodeAssertStrictResolves == TRUE

assert(condition) == IF NodeAssertStrictResolves THEN condition ELSE TRUE

(***************************************************************************)
(* The heap.  new C(...) appends an object; nothing else writes the heap.  *)
(***************************************************************************)
Obj(cls, value, error) == [cls |-> cls, value |-> value, error |-> error]

New(h, o) == Append(h, o)

\* `x instanceof Maybe` / `x instanceof Result`: an object of one of the two subclasses.
InstanceOf(h, x, classes) == x.t = "object" /\ x.n \in DOMAIN h /\ h[x.n].cls \in classes

(***************************************************************************)
(* Caller-supplied callbacks, by name.  Call(h, f, x) is f(x): the heap    *)
(* after the call (a callback may construct containers) and the value it   *)
(* returns.                                                                *)
(*   double        x => x * 2                                              *)
(*   toNull        () => null                                              *)
(*   spy           a recording stub, returns undefined                     *)
(*   isEq21        x => x === 21                                           *)
(*   thenSomething x => something(x)                                       *)
(*   thenNothing   () => nothing()                                         *)
(*   thenSuccess   x => success(x)                                         *)
(*   raise         () => { throw new Error('callback failed') }             *)
(*   g.f           x => g(f(x)), for f and g two of the above              *)
(***************************************************************************)
\* Applied to numbers only (Accepts, below).
Double(x) == Num(x.n * 2)

\* x => g(f(x))
Compose(f, g) == Fn(g.s \o "." \o f.s)

Composable == {Fn("double"), Fn("toNull"), Fn("spy"), Fn("isEq21"), Fn("thenSomething")}

\* f(x) returned v / threw e.  args is what f was invoked with: nothing when f is
\* no function, for then the call expression itself throws the TypeError.
Returned(h, v, x) == [heap |-> h, ret |-> v, threw |-> FALSE, error |-> [name |-> "", message |-> ""], args |-> <<x>>]

Raised(h, e, args) == [heap |-> h, ret |-> Undefined, threw |-> TRUE, error |-> e, args |-> args]

\* `throw new Error('callback failed')`
CallbackError == [name |-> "Error", message |-> "callback failed"]

\* Calling a value that is no function, or a method of Maybe (Result) on a value
\* that is no Maybe (Result).
TypeError == [name |-> "TypeError", message |-> "not a function"]

RECURSIVE Call(_, _, _)

Call(h, f, x) ==
  CASE f.t # "function" -> Raised(h, TypeError, <<>>)
    [] f.s = "raise" -> Raised(h, CallbackError, <<x>>)
    [] f.s = "double" -> Returned(h, Double(x), x)
    [] f.s = "toNull" -> Returned(h, Null, x)
    [] f.s = "spy" -> Returned(h, Undefined, x)
    [] f.s = "isEq21" -> Returned(h, Bool(x = Num(21)), x)
    [] f.s = "thenSomething" -> Returned(New(h, Obj("Something", x, NoField)), Ref(Len(h) + 1), x)
    [] f.s = "thenNothing" -> Returned(h, Ref(1), x)
    [] f.s = "thenSuccess" -> Returned(New(h, Obj("Success", x, NoField)), Ref(Len(h) + 1), x)
    [] \E p \in Composable \X Composable : f = Compose(p[1], p[2]) ->
         LET p == CHOOSE q \in Composable \X Composable : f = Compose(q[1], q[2])
             inner == Call(h, p[1], x)
         IN IF inner.threw THEN inner
            ELSE [Call(inner.heap, p[2], inner.ret) EXCEPT !.args = <<x>>]
    [] OTHER -> Returned(h, Undefined, x)

\* A boolean-returning predicate's result used as a condition (`p(x) ? a : b`).
Truthy(v) ==
  CASE v.t = "boolean" -> v.n = 1
    [] v.t = "number" -> v.n # 0
    [] v.t = "string" -> v.s # ""
    [] v.t \in {"null", "undefined"} -> FALSE
    [] OTHER -> TRUE

(***************************************************************************)
(* result.ts: the classes' make and the exported functions that maybe.ts   *)
(* imports.                                                                *)
(***************************************************************************)
Failure_make(h, error) == Ret(New(h, Obj("Failure", NoField, error)), Ref(Len(h) + 1), <<>>)

Success_make(h, value) == Ret(New(h, Obj("Success", value, NoField)), Ref(Len(h) + 1), <<>>)

isResult(h, value) == Ret(h, Bool(InstanceOf(h, value, {"Success", "Failure"})), <<>>)

\* Faulty variant: only undefined is refused.
failure_undefinedOnly(h, error) ==
  IF ~assert(TypeOf(error) # "undefined") THEN Thr(h, AssertionError, <<>>)
  ELSE Failure_make(h, error)

failure(h, error) ==
  IF ~assert(TypeOf(error) # "undefined") THEN Thr(h, AssertionError, <<>>)
  ELSE IF ~assert(error # Null) THEN Thr(h, AssertionError, <<>>)
  ELSE Failure_make(h, error)

\* Faulty variant: success checks its value as failure checks its error.
success_checked(h, value) ==
  IF ~assert(TypeOf(value) # "undefined") THEN Thr(h, AssertionError, <<>>)
  ELSE IF ~assert(value # Null) THEN Thr(h, AssertionError, <<>>)
  ELSE Success_make(h, value)

success(h, value) == Success_make(h, value)

(***************************************************************************)
(* maybe.ts: class Nothing.                                                *)
(***************************************************************************)
\* The static initializer constructs the single instance: heap[1].
NothingInstance == 1

Nothing_make(h) == Ret(h, Ref(NothingInstance), <<>>)

Nothing_and(h, self, other) == Ret(h, Ref(self), <<>>)

Nothing_andThen(h, self, f) == Ret(h, Ref(self), <<>>)

Nothing_expect(h, self, message) == Thr(h, ExpectationError(message.s), <<>>)

Nothing_filter(h, self, predicate) == Ret(h, Ref(self), <<>>)

\* Faulty variant: the Failure is constructed without the factory's checks.
Nothing_getSuccessOr_unchecked(h, self, error) == Failure_make(h, error)

Nothing_getSuccessOr(h, self, error) == failure(h, error)

Nothing_inspect(h, self, f) == Ret(h, Ref(self), <<>>)

Nothing_isNothing(h, self) == Ret(h, Bool(TRUE), <<>>)

\* Faulty variant: the constant of isSomethingAnd.
Nothing_isNothingOr_false(h, self, predicate) == Ret(h, Bool(FALSE), <<>>)

Nothing_isNothingOr(h, self, predicate) == Ret(h, Bool(TRUE), <<>>)

Nothing_isSomething(h, self) == Ret(h, Bool(FALSE), <<>>)

Nothing_isSomethingAnd(h, self, predicate) == Ret(h, Bool(FALSE), <<>>)

Nothing_map(h, self, f) == Ret(h, Ref(self), <<>>)

Nothing_or(h, self, other) == Ret(h, other, <<>>)

Nothing_unwrap(h, self) == Thr(h, ImproperUnwrapError("Attempted to unwrap a Nothing value"), <<>>)

(***************************************************************************)
(* maybe.ts: class Something.                                              *)
(***************************************************************************)
Something_make(h, value) == Ret(New(h, Obj("Something", value, NoField)), Ref(Len(h) + 1), <<>>)

Something_and(h, self, other) == Ret(h, other, <<>>)

\* Faulty variant: what f returned is wrapped in a new Something.
Something_andThen_rewrapped(h, self, f) ==
  LET c == Call(h, f, h[self].value)
  IN IF c.threw THEN Thr(c.heap, c.error, c.args)
     ELSE [Something_make(c.heap, c.ret) EXCEPT !.calls = <<h[self].value>>]

Something_andThen(h, self, f) ==
  LET c == Call(h, f, h[self].value)
  IN IF c.threw THEN Thr(c.heap, c.error, c.args)
     ELSE Ret(c.heap, c.ret, <<h[self].value>>)

Something_expect(h, self, message) == Ret(h, h[self].value, <<>>)

\* Faulty variant: the branches are swapped.
Something_filter_inverted(h, self, predicate) ==
  LET c == Call(h, predicate, h[self].value)
  IN IF c.threw THEN Thr(c.heap, c.error, c.args)
     ELSE IF Truthy(c.ret) THEN [Nothing_make(c.heap) EXCEPT !.calls = <<h[self].value>>]
     ELSE Ret(c.heap, Ref(self), <<h[self].value>>)

Something_filter(h, self, predicate) ==
  LET c == Call(h, predicate, h[self].value)
  IN IF c.threw THEN Thr(c.heap, c.error, c.args)
     ELSE IF Truthy(c.ret) THEN Ret(c.heap, Ref(self), <<h[self].value>>)
     ELSE [Nothing_make(c.heap) EXCEPT !.calls = <<h[self].value>>]

\* Faulty variant: the Success holds the argument.
Something_getSuccessOr_ofError(h, self, error) == success(h, error)

\* Faulty variant: a Success constructed earlier is handed out again.
Something_getSuccessOr_cached(h, self, error) ==
  IF \E a \in DOMAIN h : h[a].cls = "Success"
  THEN Ret(h, Ref(CHOOSE a \in DOMAIN h : h[a].cls = "Success"), <<>>)
  ELSE success(h, h[self].value)

\* Faulty variant: the error is checked whatever the variant.
Something_getSuccessOr_checked(h, self, error) ==
  IF ~assert(TypeOf(error) # "undefined") THEN Thr(h, AssertionError, <<>>)
  ELSE IF ~assert(error # Null) THEN Thr(h, AssertionError, <<>>)
  ELSE success(h, h[self].value)

Something_getSuccessOr(h, self, error) == success(h, h[self].value)

\* Faulty variant: f is called a second time.
Something_inspect_twice(h, self, f) ==
  LET c == Call(h, f, h[self].value)
      d == Call(c.heap, f, h[self].value)
  IN IF c.threw THEN Thr(c.heap, c.error, c.args)
     ELSE IF d.threw THEN Thr(d.heap, d.error, c.args \o d.args)
     ELSE Ret(d.heap, Ref(self), <<h[self].value, h[self].value>>)

Something_inspect(h, self, f) ==
  LET c == Call(h, f, h[self].value)
  IN IF c.threw THEN Thr(c.heap, c.error, c.args)
     ELSE Ret(c.heap, Ref(self), <<h[self].value>>)

\* Faulty variant: the payload, not the variant, decides.
Something_isNothing_byPayload(h, self) == Ret(h, Bool(h[self].value \in {Null, Undefined}), <<>>)

Something_isNothing(h, self) == Ret(h, Bool(FALSE), <<>>)

Something_isNothingOr(h, self, predicate) ==
  LET c == Call(h, predicate, h[self].value)
  IN IF c.threw THEN Thr(c.heap, c.error, c.args)
     ELSE Ret(c.heap, c.ret, <<h[self].value>>)

Something_isSomething(h, self) == Ret(h, Bool(TRUE), <<>>)

Something_isSomethingAnd(h, self, predicate) ==
  LET c == Call(h, predicate, h[self].value)
  IN IF c.threw THEN Thr(c.heap, c.error, c.args)
     ELSE Ret(c.heap, c.ret, <<h[self].value>>)

\* Faulty variant: an absent result of f gives the Nothing.
Something_map_nullable(h, self, f) ==
  LET c == Call(h, f, h[self].value)
  IN IF c.threw THEN Thr(c.heap, c.error, c.args)
     ELSE IF c.ret \in {Null, Undefined} THEN [Nothing_make(c.heap) EXCEPT !.calls = <<h[self].value>>]
     ELSE [Something_make(c.heap, c.ret) EXCEPT !.calls = <<h[self].value>>]

\* Faulty variant: the receiver's own field is overwritten and the receiver returned.
Something_map_inPlace(h, self, f) ==
  LET c == Call(h, f, h[self].value)
  IN IF c.threw THEN Thr(c.heap, c.error, c.args)
     ELSE Ret([c.heap EXCEPT ![self].value = c.ret], Ref(self), <<h[self].value>>)

Something_map(h, self, f) ==
  LET c == Call(h, f, h[self].value)
  IN IF c.threw THEN Thr(c.heap, c.error, c.args)
     ELSE [Something_make(c.heap, c.ret) EXCEPT !.calls = <<h[self].value>>]

\* Faulty variant: or behaves as and.
Something_or_other(h, self, other) == Ret(h, other, <<>>)

Something_or(h, self, other) == Ret(h, Ref(self), <<>>)

Something_unwrap(h, self) == Ret(h, h[self].value, <<>>)

(***************************************************************************)
(* maybe.ts: the public methods of Maybe (each calls the subclass's        *)
(* implementation) and the exported functions.                             *)
(***************************************************************************)
Maybe_and(h, self, other) ==
  IF h[self].cls = "Nothing" THEN Nothing_and(h, self, other) ELSE Something_and(h, self, other)

Maybe_andThen(h, self, f) ==
  IF h[self].cls = "Nothing" THEN Nothing_andThen(h, self, f) ELSE Something_andThen(h, self, f)

Maybe_expect(h, self, message) ==
  IF h[self].cls = "Nothing" THEN Nothing_expect(h, self, message) ELSE Something_expect(h, self, message)

Maybe_filter(h, self, predicate) ==
  IF h[self].cls = "Nothing" THEN Nothing_filter(h, self, predicate) ELSE Something_filter(h, self, predicate)

Maybe_getSuccessOr(h, self, error) ==
  IF h[self].cls = "Nothing" THEN Nothing_getSuccessOr(h, self, error) ELSE Something_getSuccessOr(h, self, error)

Maybe_inspect(h, self, f) ==
  IF h[self].cls = "Nothing" THEN Nothing_inspect(h, self, f) ELSE Something_inspect(h, self, f)

Maybe_isNothing(h, self) ==
  IF h[self].cls = "Nothing" THEN Nothing_isNothing(h, self) ELSE Something_isNothing(h, self)

Maybe_isNothingOr(h, self, predicate) ==
  IF h[self].cls = "Nothing" THEN Nothing_isNothingOr(h, self, predicate) ELSE Something_isNothingOr(h, self, predicate)

Maybe_isSomething(h, self) ==
  IF h[self].cls = "Nothing" THEN Nothing_isSomething(h, self) ELSE Something_isSomething(h, self)

Maybe_isSomethingAnd(h, self, predicate) ==
  IF h[self].cls = "Nothing" THEN Nothing_isSomethingAnd(h, self, predicate) ELSE Something_isSomethingAnd(h, self, predicate)

Maybe_map(h, self, f) ==
  IF h[self].cls = "Nothing" THEN Nothing_map(h, self, f) ELSE Something_map(h, self, f)

Maybe_or(h, self, other) ==
  IF h[self].cls = "Nothing" THEN Nothing_or(h, self, other) ELSE Something_or(h, self, other)

Maybe_unwrap(h, self) ==
  IF h[self].cls = "Nothing" THEN Nothing_unwrap(h, self) ELSE Something_unwrap(h, self)

\* Faulty variant: every container of the library is taken for a Maybe.
isMaybe_anyContainer(h, value) ==
  Ret(h, Bool(InstanceOf(h, value, {"Nothing", "Something", "Success", "Failure"})), <<>>)

isMaybe(h, value) == Ret(h, Bool(InstanceOf(h, value, {"Nothing", "Something"})), <<>>)

nothing(h) == Nothing_make(h)

\* Faulty variant: an absent value gives the Nothing.
something_nullable(h, value) ==
  IF value \in {Null, Undefined} THEN Nothing_make(h) ELSE Something_make(h, value)

something(h, value) == Something_make(h, value)

(***************************************************************************)
(* result.ts: class Failure.                                               *)
(***************************************************************************)
Failure_and(h, self, other) == Ret(h, Ref(self), <<>>)

Failure_andThen(h, self, f) == Ret(h, Ref(self), <<>>)

\* Faulty variant: the caller's message is dropped.
Failure_expect_fixedMessage(h, self, message) == Thr(h, ExpectationError("Expectation failed"), <<>>)

Failure_expect(h, self, message) == Thr(h, ExpectationError(message.s), <<>>)

Failure_expectFailure(h, self, message) == Ret(h, h[self].error, <<>>)

Failure_getFailure(h, self) == something(h, h[self].error)

Failure_getSuccess(h, self) == nothing(h)

Failure_inspect(h, self, f) == Ret(h, Ref(self), <<>>)

Failure_inspectFailure(h, self, f) ==
  LET c == Call(h, f, h[self].error)
  IN IF c.threw THEN Thr(c.heap, c.error, c.args)
     ELSE Ret(c.heap, Ref(self), <<h[self].error>>)

Failure_isFailure(h, self) == Ret(h, Bool(TRUE), <<>>)

Failure_isFailureAnd(h, self, predicate) ==
  LET c == Call(h, predicate, h[self].error)
  IN IF c.threw THEN Thr(c.heap, c.error, c.args)
     ELSE IF ~assert(TypeOf(c.ret) = "boolean") THEN Thr(c.heap, AssertionError, <<h[self].error>>)
     ELSE Ret(c.heap, c.ret, <<h[self].error>>)

Failure_isSuccess(h, self) == Ret(h, Bool(FALSE), <<>>)

Failure_isSuccessAnd(h, self, predicate) == Ret(h, Bool(FALSE), <<>>)

Failure_map(h, self, f) == Ret(h, Ref(self), <<>>)

\* Faulty variant: the mapped error is not checked.
Failure_mapFailure_unchecked(h, self, f) ==
  LET c == Call(h, f, h[self].error)
  IN IF c.threw THEN Thr(c.heap, c.error, c.args)
     ELSE [Failure_make(c.heap, c.ret) EXCEPT !.calls = <<h[self].error>>]

\* Faulty variant: only null is refused.
Failure_mapFailure_nullOnly(h, self, f) ==
  LET c == Call(h, f, h[self].error)
  IN IF c.threw THEN Thr(c.heap, c.error, c.args)
     ELSE IF ~assert(c.ret # Null) THEN Thr(c.heap, AssertionError, <<h[self].error>>)
     ELSE [Failure_make(c.heap, c.ret) EXCEPT !.calls = <<h[self].error>>]

\* Faulty variant: an error thrown by f is caught and the receiver returned.
Failure_mapFailure_swallow(h, self, f) ==
  LET c == Call(h, f, h[self].error)
  IN IF c.threw THEN Ret(c.heap, Ref(self), c.args)
     ELSE IF ~assert(TypeOf(c.ret) # "undefined") THEN Thr(c.heap, AssertionError, <<h[self].error>>)
     ELSE IF ~assert(c.ret # Null) THEN Thr(c.heap, AssertionError, <<h[self].error>>)
     ELSE [Failure_make(c.heap, c.ret) EXCEPT !.calls = <<h[self].error>>]

Failure_mapFailure(h, self, f) ==
  LET c == Call(h, f, h[self].error)
  IN IF c.threw THEN Thr(c.heap, c.error, c.args)
     ELSE IF ~assert(TypeOf(c.ret) # "undefined") THEN Thr(c.heap, AssertionError, <<h[self].error>>)
     ELSE IF ~assert(c.ret # Null) THEN Thr(c.heap, AssertionError, <<h[self].error>>)
     ELSE [Failure_make(c.heap, c.ret) EXCEPT !.calls = <<h[self].error>>]

\* Faulty variant: or behaves as and.
Failure_or_self(h, self, other) == Ret(h, Ref(self), <<>>)

Failure_or(h, self, other) == Ret(h, other, <<>>)

Failure_unwrap(h, self) == Thr(h, ImproperUnwrapError("Attempted to unwrap a Failure value"), <<>>)

Failure_unwrapFailure(h, self) == Ret(h, h[self].error, <<>>)

(***************************************************************************)
(* result.ts: class Success.                                               *)
(***************************************************************************)
Success_and(h, self, other) == Ret(h, other, <<>>)

\* Faulty variant: what f returned is returned unchecked.
Success_andThen_unchecked(h, self, f) ==
  LET c == Call(h, f, h[self].value)
  IN IF c.threw THEN Thr(c.heap, c.error, c.args)
     ELSE Ret(c.heap, c.ret, <<h[self].value>>)

Success_andThen(h, self, f) ==
  LET c == Call(h, f, h[self].value)
  IN IF c.threw THEN Thr(c.heap, c.error, c.args)
     ELSE IF ~assert(isResult(c.heap, c.ret).out.value = Bool(TRUE))
     THEN Thr(c.heap, AssertionError, <<h[self].value>>)
     ELSE Ret(c.heap, c.ret, <<h[self].value>>)

Success_expect(h, self, message) == Ret(h, h[self].value, <<>>)

Success_expectFailure(h, self, message) == Thr(h, ExpectationError(message.s), <<>>)

Success_getFailure(h, self) == nothing(h)

\* Faulty variant: an absent value gives the Nothing.
Success_getSuccess_nullable(h, self) ==
  IF h[self].value \in {Null, Undefined} THEN nothing(h) ELSE something(h, h[self].value)

Success_getSuccess(h, self) == something(h, h[self].value)

\* Faulty variant: what f returned is returned.
Success_inspect_returnsCallback(h, self, f) ==
  LET c == Call(h, f, h[self].value)
  IN IF c.threw THEN Thr(c.heap, c.error, c.args)
     ELSE Ret(c.heap, c.ret, <<h[self].value>>)

Success_inspect(h, self, f) ==
  LET c == Call(h, f, h[self].value)
  IN IF c.threw THEN Thr(c.heap, c.error, c.args)
     ELSE Ret(c.heap, Ref(self), <<h[self].value>>)

Success_inspectFailure(h, self, f) == Ret(h, Ref(self), <<>>)

Success_isFailure(h, self) == Ret(h, Bool(FALSE), <<>>)

Success_isFailureAnd(h, self, predicate) == Ret(h, Bool(FALSE), <<>>)

Success_isSuccess(h, self) == Ret(h, Bool(TRUE), <<>>)

Success_isSuccessAnd(h, self, predicate) ==
  LET c == Call(h, predicate, h[self].value)
  IN IF c.threw THEN Thr(c.heap, c.error, c.args)
     ELSE IF ~assert(TypeOf(c.ret) = "boolean") THEN Thr(c.heap, AssertionError, <<h[self].value>>)
     ELSE Ret(c.heap, c.ret, <<h[self].value>>)

\* Faulty variant: an absent value is not mapped.
Success_map_skipAbsent(h, self, f) ==
  IF h[self].value \in {Null, Undefined} THEN Ret(h, Ref(self), <<>>)
  ELSE LET c == Call(h, f, h[self].value)
       IN IF c.threw THEN Thr(c.heap, c.error, c.args)
          ELSE [Success_make(c.heap, c.ret) EXCEPT !.calls = <<h[self].value>>]

Success_map(h, self, f) ==
  LET c == Call(h, f, h[self].value)
  IN IF c.threw THEN Thr(c.heap, c.error, c.args)
     ELSE [Success_make(c.heap, c.ret) EXCEPT !.calls = <<h[self].value>>]

\* Faulty variant: mapFailure behaves as map.
Success_mapFailure_asMap(h, self, f) ==
  LET c == Call(h, f, h[self].value)
  IN IF c.threw THEN Thr(c.heap, c.error, c.args)
     ELSE [Success_make(c.heap, c.ret) EXCEPT !.calls = <<h[self].value>>]

Success_mapFailure(h, self, f) == Ret(h, Ref(self), <<>>)

Success_or(h, self, other) == Ret(h, Ref(self), <<>>)

Success_unwrap(h, self) == Ret(h, h[self].value, <<>>)

\* Faulty variant: the error of expectFailure is thrown.
Success_unwrapFailure_expectation(h, self) ==
  Thr(h, ExpectationError("Attempted to unwrap a Success value"), <<>>)

Success_unwrapFailure(h, self) == Thr(h, ImproperUnwrapError("Attempted to unwrap a Success value"), <<>>)

(***************************************************************************)
(* result.ts: the public methods of Result: the argument is asserted,      *)
(* then the subclass's implementation is called.                           *)
(***************************************************************************)
Result_and(h, self, other) ==
  IF ~assert(isResult(h, other).out.value = Bool(TRUE)) THEN Thr(h, AssertionError, <<>>)
  ELSE IF h[self].cls = "Failure" THEN Failure_and(h, self, other) ELSE Success_and(h, self, other)

Result_andThen(h, self, f) ==
  IF ~assert(TypeOf(f) = "function") THEN Thr(h, AssertionError, <<>>)
  ELSE IF h[self].cls = "Failure" THEN Failure_andThen(h, self, f) ELSE Success_andThen(h, self, f)

Result_expect(h, self, message) ==
  IF ~assert(TypeOf(message) = "string") THEN Thr(h, AssertionError, <<>>)
  ELSE IF h[self].cls = "Failure" THEN Failure_expect(h, self, message) ELSE Success_expect(h, self, message)

Result_expectFailure(h, self, message) ==
  IF ~assert(TypeOf(message) = "string") THEN Thr(h, AssertionError, <<>>)
  ELSE IF h[self].cls = "Failure" THEN Failure_expectFailure(h, self, message)
  ELSE Success_expectFailure(h, self, message)

Result_getFailure(h, self) ==
  IF h[self].cls = "Failure" THEN Failure_getFailure(h, self) ELSE Success_getFailure(h, self)

Result_getSuccess(h, self) ==
  IF h[self].cls = "Failure" THEN Failure_getSuccess(h, self) ELSE Success_getSuccess(h, self)

Result_inspect(h, self, f) ==
  IF ~assert(TypeOf(f) = "function") THEN Thr(h, AssertionError, <<>>)
  ELSE IF h[self].cls = "Failure" THEN Failure_inspect(h, self, f) ELSE Success_inspect(h, self, f)

Result_inspectFailure(h, self, f) ==
  IF ~assert(TypeOf(f) = "function") THEN Thr(h, AssertionError, <<>>)
  ELSE IF h[self].cls = "Failure" THEN Failure_inspectFailure(h, self, f)
  ELSE Success_inspectFailure(h, self, f)

Result_isFailure(h, self) ==
  IF h[self].cls = "Failure" THEN Failure_isFailure(h, self) ELSE Success_isFailure(h, self)

Result_isFailureAnd(h, self, predicate) ==
  IF ~assert(TypeOf(predicate) = "function") THEN Thr(h, AssertionError, <<>>)
  ELSE IF h[self].cls = "Failure" THEN Failure_isFailureAnd(h, self, predicate)
  ELSE Success_isFailureAnd(h, self, predicate)

Result_isSuccess(h, self) ==
  IF h[self].cls = "Failure" THEN Failure_isSuccess(h, self) ELSE Success_isSuccess(h, self)

Result_isSuccessAnd(h, self, predicate) ==
  IF ~assert(TypeOf(predicate) = "function") THEN Thr(h, AssertionError, <<>>)
  ELSE IF h[self].cls = "Failure" THEN Failure_isSuccessAnd(h, self, predicate)
  ELSE Success_isSuccessAnd(h, self, predicate)

\* Faulty variant: the argument is checked where it is used, on a Success.
Result_map_dispatchFirst(h, self, f) ==
  IF h[self].cls = "Failure" THEN Failure_map(h, self, f)
  ELSE IF ~assert(TypeOf(f) = "function") THEN Thr(h, AssertionError, <<>>)
  ELSE Success_map(h, self, f)

Result_map(h, self, f) ==
  IF ~assert(TypeOf(f) = "function") THEN Thr(h, AssertionError, <<>>)
  ELSE IF h[self].cls = "Failure" THEN Failure_map(h, self, f) ELSE Success_map(h, self, f)

Result_mapFailure(h, self, f) ==
  IF ~assert(TypeOf(f) = "function") THEN Thr(h, AssertionError, <<>>)
  ELSE IF h[self].cls = "Failure" THEN Failure_mapFailure(h, self, f) ELSE Success_mapFailure(h, self, f)

Result_or(h, self, other) ==
  IF ~assert(isResult(h, other).out.value = Bool(TRUE)) THEN Thr(h, AssertionError, <<>>)
  ELSE IF h[self].cls = "Failure" THEN Failure_or(h, self, other) ELSE Success_or(h, self, other)

Result_unwrap(h, self) ==
  IF h[self].cls = "Failure" THEN Failure_unwrap(h, self) ELSE Success_unwrap(h, self)

Result_unwrapFailure(h, self) ==
  IF h[self].cls = "Failure" THEN Failure_unwrapFailure(h, self) ELSE Success_unwrapFailure(h, self)

(***************************************************************************)
(* Rendering: toString() and the method util.inspect calls,                *)
(* [Symbol.for('nodejs.util.inspect.custom')]().  A text is the sequence   *)
(* of its lines, a line its leading spaces and the rest; the operators     *)
(* return the string and, as lines, its text.                              *)
(***************************************************************************)
Line(indent, text) == [indent |-> indent, text |-> text]

RECURSIVE Spaces(_)

Spaces(k) == IF k = 0 THEN "" ELSE " " \o Spaces(k - 1)

RECURSIVE Join(_)

\* lines.join('\n')
Join(lines) ==
  IF Len(lines) = 1 THEN Spaces(lines[1].indent) \o lines[1].text
  ELSE Spaces(lines[1].indent) \o lines[1].text \o "\n" \o Join(Tail(lines))

\* .split('\n').map((line) => `    ${line}`)
IndentLines(lines) == [i \in DOMAIN lines |-> Line(lines[i].indent + 4, lines[i].text)]

RECURSIVE TrimStart(_)

\* .trimStart(): the leading white space goes, lines of nothing else included.
TrimStart(lines) ==
  IF lines[1].text # "" THEN <<Line(0, lines[1].text)>> \o Tail(lines)
  ELSE IF Len(lines) = 1 THEN <<Line(0, "")>>
  ELSE TrimStart(Tail(lines))

\* `${before}${text}${after}`, before and after without a line break.
Splice(before, lines, after) ==
  LET first == Line(before.indent, before.text \o Spaces(lines[1].indent) \o lines[1].text)
      all == <<first>> \o Tail(lines)
      n == Len(all)
  IN [i \in 1..n |-> IF i = n THEN Line(all[i].indent, all[i].text \o after) ELSE all[i]]

Digit(d) ==
  CASE d = 0 -> "0" [] d = 1 -> "1" [] d = 2 -> "2" [] d = 3 -> "3" [] d = 4 -> "4"
    [] d = 5 -> "5" [] d = 6 -> "6" [] d = 7 -> "7" [] d = 8 -> "8" [] d = 9 -> "9"

RECURSIVE NumberToString(_)

\* `${k}` for k a natural number
NumberToString(k) == IF k < 10 THEN Digit(k) ELSE NumberToString(k \div 10) \o Digit(k % 10)

\* A string returned, with its text as lines.
RetText(h, lines) == [heap |-> h, out |-> Return(Str(Join(lines))), calls |-> <<>>, lines |-> lines]

ThrText(h, out) == [heap |-> h, out |-> out, calls |-> <<>>, lines |-> <<>>]

\* utilities/node-js-util-inspect: `await import('node:util')` and its inspect, or
\* () => '' when the import fails.  maybe.ts imports node:util statically, so the
\* library loads only where it resolves.
NodeUtilResolves == TRUE

RECURSIVE ToString(_, _)

RECURSIVE nodeJsUtilInspect(_, _)

RECURSIVE Maybe_toString(_, _)

RECURSIVE Result_convertToString(_, _, _)

\* The two functions Result passes to #convertToString.
ApplyToStringFunction(h, toStringFunction, value) ==
  IF toStringFunction = "template" THEN ToString(h, value) ELSE nodeJsUtilInspect(h, value)

\* Faulty variant: every Maybe is taken for a Nothing.
Maybe_toString_nothingOnly(h, self) ==
  IF Maybe_isNothing(h, self).out.value = Bool(TRUE) THEN RetText(h, <<Line(0, "Maybe{ Nothing }")>>)
  ELSE ThrText(h, Throw(UnreachableCodeError("Reached an unreachable code path")))

Maybe_toString(h, self) ==
  IF Maybe_isSomething(h, self).out.value = Bool(TRUE)
  THEN LET v == Maybe_unwrap(h, self)
           t == IF v.out.kind = "throw" THEN ThrText(h, v.out) ELSE ToString(h, v.out.value)
       IN IF t.out.kind = "throw" THEN t
          ELSE RetText(h, Splice(Line(0, "Maybe{ Something{ value: "), t.lines, " } }"))
  ELSE IF Maybe_isNothing(h, self).out.value = Bool(TRUE)
  THEN RetText(h, <<Line(0, "Maybe{ Nothing }")>>)
  ELSE ThrText(h, Throw(UnreachableCodeError("Reached an unreachable code path")))

\* Maybe's [util.inspect.custom]()
Maybe_utilInspectCustom(h, self) == Maybe_toString(h, self)

Result_convertToString(h, self, toStringFunction) ==
  IF Result_isSuccess(h, self).out.value = Bool(TRUE)
  THEN LET v == Result_unwrap(h, self)
           t == IF v.out.kind = "throw" THEN ThrText(h, v.out)
                ELSE ApplyToStringFunction(h, toStringFunction, v.out.value)
       IN IF t.out.kind = "throw" THEN t
          ELSE RetText(h, <<Line(0, "Result{"), Line(2, "Success{")>>
                          \o Splice(Line(4, "value: "), TrimStart(IndentLines(t.lines)), ",")
                          \o <<Line(2, "}"), Line(0, "}")>>)
  ELSE IF Result_isFailure(h, self).out.value = Bool(TRUE)
  THEN LET e == Result_unwrapFailure(h, self)
           t == IF e.out.kind = "throw" THEN ThrText(h, e.out)
                ELSE ApplyToStringFunction(h, toStringFunction, e.out.value)
       IN IF t.out.kind = "throw" THEN t
          ELSE RetText(h, <<Line(0, "Result{"), Line(2, "Failure{")>>
                          \o Splice(Line(4, "error: "), TrimStart(IndentLines(t.lines)), ",")
                          \o <<Line(2, "}"), Line(0, "}")>>)
  ELSE ThrText(h, Throw(UnreachableCodeError("Reached an unreachable code path")))

Result_toString(h, self) == Result_convertToString(h, self, "template")

\* Result's [customNodeJsUtilInspectSymbol]()
Result_utilInspectCustom(h, self) == Result_convertToString(h, self, "nodeJsUtilInspect")

\* `${value}`: a container is rendered by its toString().
ToString(h, value) ==
  CASE value.t = "null" -> RetText(h, <<Line(0, "null")>>)
    [] value.t = "undefined" -> RetText(h, <<Line(0, "undefined")>>)
    [] value.t = "number" -> RetText(h, <<Line(0, NumberToString(value.n))>>)
    [] value.t = "boolean" -> RetText(h, <<Line(0, IF value.n = 1 THEN "true" ELSE "false")>>)
    [] value.t = "string" -> RetText(h, <<Line(0, value.s)>>)
    [] InstanceOf(h, value, {"Nothing", "Something"}) -> Maybe_toString(h, value.n)
    [] InstanceOf(h, value, {"Success", "Failure"}) -> Result_toString(h, value.n)

\* util.inspect(value): a string is quoted, a container is rendered by its
\* [util.inspect.custom]() method.
nodeJsUtilInspect(h, value) ==
  IF ~NodeUtilResolves THEN RetText(h, <<Line(0, "")>>)
  ELSE CASE value.t = "string" -> RetText(h, <<Line(0, "'" \o value.s \o "'")>>)
         [] InstanceOf(h, value, {"Nothing", "Something"}) -> Maybe_utilInspectCustom(h, value.n)
         [] InstanceOf(h, value, {"Success", "Failure"}) -> Result_utilInspectCustom(h, value.n)
         [] OTHER -> ToString(h, value)

(***************************************************************************)
(* The arguments a caller passes.                                          *)
(***************************************************************************)
\* Values a caller has at hand: primitives and the containers constructed so far.
Values(h) == {Null, Undefined, Num(21)} \cup {Ref(i) : i \in DOMAIN h}

Messages == {Str("boom"), Str("")}

Mappers == {Fn("double"), Fn("toNull"), Fn("spy")}

\* toNull stands for a callback that does not return a boolean.
Predicates == {Fn("isEq21"), Fn("toNull")}

\* isEq21 stands for a callback whose return value is not undefined.
Inspectors == {Fn("spy"), Fn("isEq21")}

Binders == {Fn("thenSomething"), Fn("thenNothing")}

\* thenNothing stands for a callback that does not return a Result.
ResultBinders == {Fn("thenSuccess"), Fn("thenNothing")}

\* A callback that throws, and an argument that is no function.
Faulty == {Fn("raise"), Num(21)}

Maybes(h) == {i \in DOMAIN h : h[i].cls \in {"Nothing", "Something"}}

Results(h) == {i \in DOMAIN h : h[i].cls \in {"Success", "Failure"}}

\* (value: number) => number is applied to numbers, and its result stays in range.
Accepts(f, x) == f.s = "double" => (x.t = "number" /\ x.n * 2 <= MaxNum)

(***************************************************************************)
(* The state: the heap, and the last call with its outcome.  script and    *)
(* results belong to the chained-call scenarios below.                     *)
(***************************************************************************)
NoCall == [op |-> "none", self |-> Undefined, arg |-> Undefined, out |-> Return(Undefined), calls |-> <<>>]

Init ==
  /\ heap = <<Obj("Nothing", NoField, NoField)>>
  /\ lastOp = NoCall
  /\ script = <<>>
  /\ results = <<>>

\* One call: r is what the operator computed from the current heap.
Step(op, self, arg, r) ==
  /\ lastOp = NoCall
  /\ Len(r.heap) <= MaxHeap
  /\ \A i \in DOMAIN r.calls : Accepts(arg, r.calls[i])
  /\ heap' = r.heap
  /\ lastOp' = [op |-> op, self |-> self, arg |-> arg, out |-> r.out, calls |-> r.calls]
  /\ UNCHANGED <<script, results>>

Call_something == \E v \in Values(heap) : Step("something", Undefined, v, something(heap, v))

Call_nothing == \E a \in {Undefined} : Step("nothing", Undefined, a, nothing(heap))

Call_isMaybe == \E v \in Values(heap) : Step("isMaybe", Undefined, v, isMaybe(heap, v))

Call_success == \E v \in Values(heap) : Step("success", Undefined, v, success(heap, v))

Call_failure == \E e \in Values(heap) : Step("failure", Undefined, e, failure(heap, e))

Call_isResult == \E v \in Values(heap) : Step("isResult", Undefined, v, isResult(heap, v))

Call_Maybe_and ==
  \E self \in Maybes(heap), a \in Values(heap) :
    Step("Maybe.and", Ref(self), a, Maybe_and(heap, self, a))

Call_Maybe_andThen ==
  \E self \in Maybes(heap), a \in Binders \cup Faulty :
    Step("Maybe.andThen", Ref(self), a, Maybe_andThen(heap, self, a))

Call_Maybe_expect ==
  \E self \in Maybes(heap), a \in Messages :
    Step("Maybe.expect", Ref(self), a, Maybe_expect(heap, self, a))

Call_Maybe_filter ==
  \E self \in Maybes(heap), a \in Predicates \cup Faulty :
    Step("Maybe.filter", Ref(self), a, Maybe_filter(heap, self, a))

Call_Maybe_getSuccessOr ==
  \E self \in Maybes(heap), a \in Values(heap) :
    Step("Maybe.getSuccessOr", Ref(self), a, Maybe_getSuccessOr(heap, self, a))

Call_Maybe_inspect ==
  \E self \in Maybes(heap), a \in Inspectors \cup Faulty :
    Step("Maybe.inspect", Ref(self), a, Maybe_inspect(heap, self, a))

Call_Maybe_isNothing ==
  \E self \in Maybes(heap) : Step("Maybe.isNothing", Ref(self), Undefined, Maybe_isNothing(heap, self))

Call_Maybe_isNothingOr ==
  \E self \in Maybes(heap), a \in Predicates \cup Faulty :
    Step("Maybe.isNothingOr", Ref(self), a, Maybe_isNothingOr(heap, self, a))

Call_Maybe_isSomething ==
  \E self \in Maybes(heap) : Step("Maybe.isSomething", Ref(self), Undefined, Maybe_isSomething(heap, self))

Call_Maybe_isSomethingAnd ==
  \E self \in Maybes(heap), a \in Predicates \cup Faulty :
    Step("Maybe.isSomethingAnd", Ref(self), a, Maybe_isSomethingAnd(heap, self, a))

Call_Maybe_map ==
  \E self \in Maybes(heap), a \in Mappers \cup Faulty :
    Step("Maybe.map", Ref(self), a, Maybe_map(heap, self, a))

Call_Maybe_or ==
  \E self \in Maybes(heap), a \in Values(heap) :
    Step("Maybe.or", Ref(self), a, Maybe_or(heap, self, a))

Call_Maybe_unwrap ==
  \E self \in Maybes(heap) : Step("Maybe.unwrap", Ref(self), Undefined, Maybe_unwrap(heap, self))

Call_Result_and ==
  \E self \in Results(heap), a \in Values(heap) :
    Step("Result.and", Ref(self), a, Result_and(heap, self, a))

Call_Result_andThen ==
  \E self \in Results(heap), a \in ResultBinders \cup Faulty :
    Step("Result.andThen", Ref(self), a, Result_andThen(heap, self, a))

Call_Result_expect ==
  \E self \in Results(heap), a \in Messages :
    Step("Result.expect", Ref(self), a, Result_expect(heap, self, a))

Call_Result_expectFailure ==
  \E self \in Results(heap), a \in Messages :
    Step("Result.expectFailure", Ref(self), a, Result_expectFailure(heap, self, a))

Call_Result_getFailure ==
  \E self \in Results(heap) : Step("Result.getFailure", Ref(self), Undefined, Result_getFailure(heap, self))

Call_Result_getSuccess ==
  \E self \in Results(heap) : Step("Result.getSuccess", Ref(self), Undefined, Result_getSuccess(heap, self))

Call_Result_inspect ==
  \E self \in Results(heap), a \in Inspectors \cup Faulty :
    Step("Result.inspect", Ref(self), a, Result_inspect(heap, self, a))

Call_Result_inspectFailure ==
  \E self \in Results(heap), a \in Inspectors \cup Faulty :
    Step("Result.inspectFailure", Ref(self), a, Result_inspectFailure(heap, self, a))

Call_Result_isFailure ==
  \E self \in Results(heap) : Step("Result.isFailure", Ref(self), Undefined, Result_isFailure(heap, self))

Call_Result_isFailureAnd ==
  \E self \in Results(heap), a \in Predicates \cup Faulty :
    Step("Result.isFailureAnd", Ref(self), a, Result_isFailureAnd(heap, self, a))

Call_Result_isSuccess ==
  \E self \in Results(heap) : Step("Result.isSuccess", Ref(self), Undefined, Result_isSuccess(heap, self))

Call_Result_isSuccessAnd ==
  \E self \in Results(heap), a \in Predicates \cup Faulty :
    Step("Result.isSuccessAnd", Ref(self), a, Result_isSuccessAnd(heap, self, a))

Call_Result_map ==
  \E self \in Results(heap), a \in Mappers \cup Faulty :
    Step("Result.map", Ref(self), a, Result_map(heap, self, a))

Call_Result_mapFailure ==
  \E self \in Results(heap), a \in Mappers \cup Faulty :
    Step("Result.mapFailure", Ref(self), a, Result_mapFailure(heap, self, a))

Call_Result_or ==
  \E self \in Results(heap), a \in Values(heap) :
    Step("Result.or", Ref(self), a, Result_or(heap, self, a))

Call_Result_unwrap ==
  \E self \in Results(heap) : Step("Result.unwrap", Ref(self), Undefined, Result_unwrap(heap, self))

Call_Result_unwrapFailure ==
  \E self \in Results(heap) : Step("Result.unwrapFailure", Ref(self), Undefined, Result_unwrapFailure(heap, self))

Call_Maybe_toString ==
  \E self \in Maybes(heap) : Step("Maybe.toString", Ref(self), Undefined, Maybe_toString(heap, self))

Call_Maybe_utilInspectCustom ==
  \E self \in Maybes(heap) :
    Step("Maybe.utilInspectCustom", Ref(self), Undefined, Maybe_utilInspectCustom(heap, self))

Call_Result_toString ==
  \E self \in Results(heap) : Step("Result.toString", Ref(self), Undefined, Result_toString(heap, self))

Call_Result_utilInspectCustom ==
  \E self \in Results(heap) :
    Step("Result.utilInspectCustom", Ref(self), Undefined, Result_utilInspectCustom(heap, self))

\* The caller goes on to its next statement: the outcome of the call is consumed.
Continue ==
  /\ lastOp # NoCall
  /\ lastOp' = NoCall
  /\ UNCHANGED <<heap, script, results>>

Next ==
  \/ Continue
  \/ Call_something
  \/ Call_nothing
  \/ Call_isMaybe
  \/ Call_success
  \/ Call_failure
  \/ Call_isResult
  \/ Call_Maybe_and
  \/ Call_Maybe_andThen
  \/ Call_Maybe_expect
  \/ Call_Maybe_filter
  \/ Call_Maybe_getSuccessOr
  \/ Call_Maybe_inspect
  \/ Call_Maybe_isNothing
  \/ Call_Maybe_isNothingOr
  \/ Call_Maybe_isSomething
  \/ Call_Maybe_isSomethingAnd
  \/ Call_Maybe_map
  \/ Call_Maybe_or
  \/ Call_Maybe_unwrap
  \/ Call_Result_and
  \/ Call_Result_andThen
  \/ Call_Result_expect
  \/ Call_Result_expectFailure
  \/ Call_Result_getFailure
  \/ Call_Result_getSuccess
  \/ Call_Result_inspect
  \/ Call_Result_inspectFailure
  \/ Call_Result_isFailure
  \/ Call_Result_isFailureAnd
  \/ Call_Result_isSuccess
  \/ Call_Result_isSuccessAnd
  \/ Call_Result_map
  \/ Call_Result_mapFailure
  \/ Call_Result_or
  \/ Call_Result_unwrap
  \/ Call_Result_unwrapFailure
  \/ Call_Maybe_toString
  \/ Call_Maybe_utilInspectCustom
  \/ Call_Result_toString
  \/ Call_Result_utilInspectCustom

Spec == Init /\ [][Next]_vars

(***************************************************************************)
(* Chained calls, a.f(x).g(y): a script is the calls of one expression,    *)
(* each method called on the value the call before it returned.  A thrown  *)
(* error ends the expression; the calls left in the script never run.      *)
(***************************************************************************)
ScriptCall(op, arg) == [op |-> op, arg |-> arg, make |-> ""]

\* A call whose argument is itself a factory call, a.f(make(v)).
ScriptCallOf(op, make, v) == [op |-> op, arg |-> v, make |-> make]

MaybeOps ==
  {"Maybe.and", "Maybe.andThen", "Maybe.expect", "Maybe.filter", "Maybe.getSuccessOr",
   "Maybe.inspect", "Maybe.isNothing", "Maybe.isNothingOr", "Maybe.isSomething",
   "Maybe.isSomethingAnd", "Maybe.map", "Maybe.or", "Maybe.unwrap", "Maybe.toString",
   "Maybe.utilInspectCustom"}

ResultOps ==
  {"Result.and", "Result.andThen", "Result.expect", "Result.expectFailure", "Result.getFailure",
   "Result.getSuccess", "Result.inspect", "Result.inspectFailure", "Result.isFailure",
   "Result.isFailureAnd", "Result.isSuccess", "Result.isSuccessAnd", "Result.map",
   "Result.mapFailure", "Result.or", "Result.unwrap", "Result.unwrapFailure", "Result.toString",
   "Result.utilInspectCustom"}

\* What a host without the builtin throws when a module imports node:util.
UnknownBuiltinModule == [name |-> "Error", message |-> "No such built-in module: node:util"]

\* `import ... from 'eaux'` in a host where node:util resolves or does not.
\* index.ts imports maybe.ts, which imports node:util statically: without the
\* builtin the import throws and no module of the library is evaluated; with it
\* the modules are evaluated and the Nothing instance is constructed.
import_eaux(h, nodeUtilResolves) ==
  IF nodeUtilResolves = Bool(TRUE)
  THEN Ret(<<Obj("Nothing", NoField, NoField)>>, Undefined, <<>>)
  ELSE Thr(h, UnknownBuiltinModule, <<>>)

\* A call of one of the four factories.
Make(h, make, v) ==
  CASE make = "something" -> something(h, v)
    [] make = "nothing" -> nothing(h)
    [] make = "success" -> success(h, v)
    [] make = "failure" -> failure(h, v)

\* The call op of the public interface, on the value self with the argument arg.
Invoke(h, op, self, arg) ==
  CASE op = "import" -> import_eaux(h, arg)
    [] op \in {"something", "nothing", "success", "failure"} -> Make(h, op, arg)
    [] op = "isMaybe" -> isMaybe(h, arg)
    [] op = "isResult" -> isResult(h, arg)
    [] op \in MaybeOps /\ ~InstanceOf(h, self, {"Nothing", "Something"}) -> Thr(h, TypeError, <<>>)
    [] op \in ResultOps /\ ~InstanceOf(h, self, {"Success", "Failure"}) -> Thr(h, TypeError, <<>>)
    [] op = "Maybe.and" -> Maybe_and(h, self.n, arg)
    [] op = "Maybe.andThen" -> Maybe_andThen(h, self.n, arg)
    [] op = "Maybe.expect" -> Maybe_expect(h, self.n, arg)
    [] op = "Maybe.filter" -> Maybe_filter(h, self.n, arg)
    [] op = "Maybe.getSuccessOr" -> Maybe_getSuccessOr(h, self.n, arg)
    [] op = "Maybe.inspect" -> Maybe_inspect(h, self.n, arg)
    [] op = "Maybe.isNothing" -> Maybe_isNothing(h, self.n)
    [] op = "Maybe.isNothingOr" -> Maybe_isNothingOr(h, self.n, arg)
    [] op = "Maybe.isSomething" -> Maybe_isSomething(h, self.n)
    [] op = "Maybe.isSomethingAnd" -> Maybe_isSomethingAnd(h, self.n, arg)
    [] op = "Maybe.map" -> Maybe_map(h, self.n, arg)
    [] op = "Maybe.or" -> Maybe_or(h, self.n, arg)
    [] op = "Maybe.unwrap" -> Maybe_unwrap(h, self.n)
    [] op = "Maybe.toString" -> Maybe_toString(h, self.n)
    [] op = "Maybe.utilInspectCustom" -> Maybe_utilInspectCustom(h, self.n)
    [] op = "Result.and" -> Result_and(h, self.n, arg)
    [] op = "Result.andThen" -> Result_andThen(h, self.n, arg)
    [] op = "Result.expect" -> Result_expect(h, self.n, arg)
    [] op = "Result.expectFailure" -> Result_expectFailure(h, self.n, arg)
    [] op = "Result.getFailure" -> Result_getFailure(h, self.n)
    [] op = "Result.getSuccess" -> Result_getSuccess(h, self.n)
    [] op = "Result.inspect" -> Result_inspect(h, self.n, arg)
    [] op = "Result.inspectFailure" -> Result_inspectFailure(h, self.n, arg)
    [] op = "Result.isFailure" -> Result_isFailure(h, self.n)
    [] op = "Result.isFailureAnd" -> Result_isFailureAnd(h, self.n, arg)
    [] op = "Result.isSuccess" -> Result_isSuccess(h, self.n)
    [] op = "Result.isSuccessAnd" -> Result_isSuccessAnd(h, self.n, arg)
    [] op = "Result.map" -> Result_map(h, self.n, arg)
    [] op = "Result.mapFailure" -> Result_mapFailure(h, self.n, arg)
    [] op = "Result.or" -> Result_or(h, self.n, arg)
    [] op = "Result.unwrap" -> Result_unwrap(h, self.n)
    [] op = "Result.unwrapFailure" -> Result_unwrapFailure(h, self.n)
    [] op = "Result.toString" -> Result_toString(h, self.n)
    [] op = "Result.utilInspectCustom" -> Result_utilInspectCustom(h, self.n)

Last(q) == q[Len(q)]

\* The next call of the expression: the receiver is what the call before it
\* returned, then the argument is evaluated, then the method is called.
Chain_call ==
  /\ script # <<>>
  /\ results # <<>> => Last(results).out.kind = "return"
  /\ LET c == Head(script)
         self == IF results = <<>> THEN Undefined ELSE Last(results).out.value
         a == IF c.make = "" THEN Ret(heap, c.arg, <<>>) ELSE Make(heap, c.make, c.arg)
         r == IF a.out.kind = "throw" THEN a ELSE Invoke(a.heap, c.op, self, a.out.value)
         done == [op |-> c.op, self |-> self, arg |-> a.out.value, out |-> r.out, calls |-> r.calls,
                  literal |-> c.arg]
     IN /\ heap' = r.heap
        /\ lastOp' = done
        /\ results' = Append(results, done)
        /\ script' = Tail(script)

\* The values and errors the round-trip expressions are run with.
RoundTripValues == {Null, Undefined, Num(21), Str("oops"), Ref(NothingInstance)}

\* something(v).getSuccessOr(e).getSuccess().unwrap() and nothing().getSuccessOr(e).unwrapFailure()
RoundTripScripts ==
  {<<ScriptCall("something", v), ScriptCall("Maybe.getSuccessOr", e),
     ScriptCall("Result.getSuccess", Undefined), ScriptCall("Maybe.unwrap", Undefined)>> :
     v \in RoundTripValues, e \in RoundTripValues}
  \cup
  {<<ScriptCall("nothing", Undefined), ScriptCall("Maybe.getSuccessOr", e),
     ScriptCall("Result.unwrapFailure", Undefined)>> : e \in RoundTripValues}

InitRoundTrip ==
  /\ heap = <<Obj("Nothing", NoField, NoField)>>
  /\ lastOp = NoCall
  /\ script \in RoundTripScripts
  /\ results = <<>>

NextRoundTrip == Chain_call

SpecRoundTrip == InitRoundTrip /\ [][NextRoundTrip]_vars

(***************************************************************************)
(* c.map(f).map(g) followed by c.map(x => g(f(x))), with c constructed     *)
(* anew by the same factory call.                                          *)
(***************************************************************************)
MapComposeValues == {Null, Undefined, Num(5), Num(21), Str("oops"), Ref(NothingInstance)}

\* f accepts v and g accepts f(v).
ComposeAccepts(f, g, v) ==
  /\ Accepts(f, v)
  /\ Accepts(g, Call(<<Obj("Nothing", NoField, NoField)>>, f, v).ret)

MapComposeScript(make, v, mapOp, f, g) ==
  <<ScriptCall(make, v), ScriptCall(mapOp, f), ScriptCall(mapOp, g),
    ScriptCall(make, v), ScriptCall(mapOp, Compose(f, g))>>

MapComposeScripts ==
  {MapComposeScript(q[1][1], q[2], q[1][2], q[3], q[4]) :
     q \in {t \in {<<"something", "Maybe.map">>, <<"success", "Result.map">>}
                     \X MapComposeValues \X Composable \X Composable :
               ComposeAccepts(t[3], t[4], t[2])}}
  \cup
  {MapComposeScript("nothing", Undefined, "Maybe.map", f, g) : f \in Composable, g \in Composable}
  \cup
  {MapComposeScript("failure", e, "Result.map", f, g) :
     e \in {x \in MapComposeValues : x \notin {Null, Undefined}}, f \in Composable, g \in Composable}

InitMapCompose ==
  /\ heap = <<Obj("Nothing", NoField, NoField)>>
  /\ lastOp = NoCall
  /\ script \in MapComposeScripts
  /\ results = <<>>

NextMapCompose == Chain_call

SpecMapCompose == InitMapCompose /\ [][NextMapCompose]_vars

(***************************************************************************)
(* c.inspect(f).map(g).andThen(h), with c a container of either type and   *)
(* either variant and f, g, h callbacks that return or throw.              *)
(***************************************************************************)
CallbackOrderValues == {Null, Num(5), Num(21), Str("oops")}

CallbackOrderScript(make, v, type, f, g, h) ==
  <<ScriptCall(make, v), ScriptCall(type \o ".inspect", f), ScriptCall(type \o ".map", g),
    ScriptCall(type \o ".andThen", h)>>

CallbackOrderScripts ==
  {CallbackOrderScript(q[1][1], q[2], q[1][2], q[3], q[4], q[5]) :
     q \in {t \in {<<"something", "Maybe">>, <<"nothing", "Maybe">>, <<"success", "Result">>,
                    <<"failure", "Result">>}
                     \X CallbackOrderValues
                     \X {Fn("spy"), Fn("thenSomething"), Fn("raise")}
                     \X {Fn("double"), Fn("toNull"), Fn("thenSomething"), Fn("raise")}
                     \X {Fn("thenSomething"), Fn("thenSuccess"), Fn("thenNothing")} :
               /\ Accepts(t[4], t[2])
               /\ t[1][1] = "nothing" => t[2] = Null
               /\ t[1][1] = "failure" => t[2] # Null}}

InitCallbackOrder ==
  /\ heap = <<Obj("Nothing", NoField, NoField)>>
  /\ lastOp = NoCall
  /\ script \in CallbackOrderScripts
  /\ results = <<>>

NextCallbackOrder == Chain_call

SpecCallbackOrder == InitCallbackOrder /\ [][NextCallbackOrder]_vars

(***************************************************************************)
(* The README's examples: c.map(f).or(something(d)).unwrap() with c a      *)
(* Something or the Nothing, success(v).map(f).unwrap(), and               *)
(* failure(e).isSuccess() / failure(e).unwrapFailure().                    *)
(***************************************************************************)
FallbackValues == {Null, Undefined, Num(0), Num(21), Str("oops"), Ref(NothingInstance)}

FallbackScripts ==
  {<<ScriptCall(q[1], q[2]), ScriptCall("Maybe.map", q[3]),
     ScriptCallOf("Maybe.or", "something", q[4]), ScriptCall("Maybe.unwrap", Undefined)>> :
     q \in {t \in {"something", "nothing"} \X FallbackValues \X Composable \X FallbackValues :
               /\ t[1] = "something" => Accepts(t[3], t[2])
               /\ t[1] = "nothing" => t[2] = Undefined}}
  \cup
  {<<ScriptCall("success", q[1]), ScriptCall("Result.map", q[2]), ScriptCall("Result.unwrap", Undefined)>> :
     q \in {t \in FallbackValues \X Composable : Accepts(t[2], t[1])}}
  \cup
  {<<ScriptCall("failure", q[1]), ScriptCall(q[2], Undefined)>> :
     q \in {t \in FallbackValues \X {"Result.isSuccess", "Result.unwrapFailure"} :
               t[1] \notin {Null, Undefined}}}

InitFallback ==
  /\ heap = <<Obj("Nothing", NoField, NoField)>>
  /\ lastOp = NoCall
  /\ script \in FallbackScripts
  /\ results = <<>>

NextFallback == Chain_call

SpecFallback == InitFallback /\ [][NextFallback]_vars

(***************************************************************************)
(* A program in a host where node:util resolves or does not: it imports    *)
(* the library, constructs a container and calls one method on it.         *)
(***************************************************************************)
HostValues == {Null, Undefined, Num(21), Str("oops")}

HostCalls ==
  {<<"success", "Result.utilInspectCustom", Undefined>>, <<"success", "Result.toString", Undefined>>,
   <<"success", "Result.unwrap", Undefined>>, <<"success", "Result.map", Fn("toNull")>>,
   <<"success", "Result.isSuccess", Undefined>>, <<"success", "Result.getSuccess", Undefined>>,
   <<"failure", "Result.utilInspectCustom", Undefined>>, <<"failure", "Result.toString", Undefined>>,
   <<"failure", "Result.unwrapFailure", Undefined>>, <<"failure", "Result.mapFailure", Fn("isEq21")>>,
   <<"something", "Maybe.utilInspectCustom", Undefined>>, <<"something", "Maybe.unwrap", Undefined>>,
   <<"something", "Maybe.map", Fn("isEq21")>>, <<"something", "Maybe.getSuccessOr", Num(21)>>}

HostScripts ==
  {<<ScriptCall("import", q[1]), ScriptCall(q[2][1], q[3]), ScriptCall(q[2][2], q[2][3])>> :
     q \in {t \in {Bool(TRUE), Bool(FALSE)} \X HostCalls \X HostValues :
               t[2][1] = "failure" => t[3] \notin {Null, Undefined}}}

\* Before the import no module is evaluated: there is no container.
InitHost ==
  /\ heap = <<>>
  /\ lastOp = NoCall
  /\ script \in HostScripts
  /\ results = <<>>

NextHost == Chain_call

SpecHost == InitHost /\ [][NextHost]_vars

(***************************************************************************)
(* Properties.                                                             *)
(***************************************************************************)
IsAbsent(v) == v \in {Null, Undefined}

\* The methods that take a callback.
CallbackOps ==
  {"Maybe.andThen", "Maybe.filter", "Maybe.inspect", "Maybe.isNothingOr", "Maybe.isSomethingAnd",
   "Maybe.map", "Result.andThen", "Result.inspect", "Result.inspectFailure", "Result.isFailureAnd",
   "Result.isSuccessAnd", "Result.map", "Result.mapFailure"}

\* The argument of a method that takes a callback is a function, and one that returns.
Returning(op, arg) == op \in CallbackOps => (arg.t = "function" /\ arg # Fn("raise"))

\* The call recorded in lastOp' was made in this step (its callback, if it takes
\* one, being a function that returns).
Called(ops) == lastOp = NoCall /\ lastOp'.op \in ops /\ Returning(lastOp'.op, lastOp'.arg)

\* x is a Something (a Nothing) going by the public queries.
QueriesSomething(h, x) ==
  /\ isMaybe(h, x).out = Return(Bool(TRUE))
  /\ Maybe_isSomething(h, x.n).out = Return(Bool(TRUE))
  /\ Maybe_isNothing(h, x.n).out = Return(Bool(FALSE))

QueriesNothing(h, x) ==
  /\ isMaybe(h, x).out = Return(Bool(TRUE))
  /\ Maybe_isSomething(h, x.n).out = Return(Bool(FALSE))
  /\ Maybe_isNothing(h, x.n).out = Return(Bool(TRUE))

QueriesSuccess(h, x) ==
  /\ isResult(h, x).out = Return(Bool(TRUE))
  /\ Result_isSuccess(h, x.n).out = Return(Bool(TRUE))
  /\ Result_isFailure(h, x.n).out = Return(Bool(FALSE))

QueriesFailure(h, x) ==
  /\ isResult(h, x).out = Return(Bool(TRUE))
  /\ Result_isSuccess(h, x.n).out = Return(Bool(FALSE))
  /\ Result_isFailure(h, x.n).out = Return(Bool(TRUE))

\* C1: after any sequence of public calls, no Failure on the heap holds null or
\* undefined as its error.
C1_NoAbsentError ==
  \A i \in DOMAIN heap : heap[i].cls = "Failure" => ~IsAbsent(heap[i].error)

\* A mapFailure whose callback returned null was refused while a Failure exists.
C1_Witness ==
  /\ lastOp.op = "Result.mapFailure"
  /\ lastOp.arg = Fn("toNull")
  /\ lastOp.calls # <<>>
  /\ lastOp.out.kind = "throw"
  /\ \E i \in DOMAIN heap : heap[i].cls = "Failure"

\* C2: failure(e) with e null or undefined throws and constructs nothing; with any
\* other e it returns a new Result whose isFailure() is true and isSuccess() false.
C2_FailureFactory ==
  [][Called({"failure"}) =>
       IF IsAbsent(lastOp'.arg)
       THEN lastOp'.out.kind = "throw" /\ heap' = heap
       ELSE /\ lastOp'.out = Return(Ref(Len(heap) + 1))
            /\ Len(heap') = Len(heap) + 1
            /\ QueriesFailure(heap', lastOp'.out.value)]_vars

C2_Witness ==
  /\ lastOp.op = "failure"
  /\ lastOp.arg = Null
  /\ lastOp.out.kind = "throw"
  /\ lastOp.out.name = "AssertionError"

\* C3: every Maybe answers exactly one of isSomething() / isNothing() with true and
\* every Result exactly one of isSuccess() / isFailure(); the answer is that of the
\* container's variant whatever its payload, and no call changes it.
VariantAnswers(h, i) ==
  <<IF h[i].cls \in {"Nothing", "Something"} THEN Maybe_isSomething(h, i).out ELSE Result_isSuccess(h, i).out,
    IF h[i].cls \in {"Nothing", "Something"} THEN Maybe_isNothing(h, i).out ELSE Result_isFailure(h, i).out>>

C3_ExactlyOneVariant ==
  [][\A i \in DOMAIN heap' :
       /\ VariantAnswers(heap', i) \in {<<Return(Bool(TRUE)), Return(Bool(FALSE))>>,
                                       <<Return(Bool(FALSE)), Return(Bool(TRUE))>>}
       /\ VariantAnswers(heap', i)[1] = Return(Bool(heap'[i].cls \in {"Something", "Success"}))
       /\ i \in DOMAIN heap => VariantAnswers(heap', i) = VariantAnswers(heap, i)]_vars

\* isNothing() was asked of a Something that holds null, and answered false.
C3_Witness ==
  /\ lastOp.op = "Maybe.isNothing"
  /\ heap[lastOp.self.n].cls = "Something"
  /\ heap[lastOp.self.n].value = Null
  /\ lastOp.out = Return(Bool(FALSE))

\* C4: something(v) returns, for every v (null, undefined and containers included),
\* a Maybe with isSomething() true, isNothing() false and unwrap() = v; success(v)
\* a Result with isSuccess() true, isFailure() false and unwrap() = v.
C4_FactoriesHoldAnyValue ==
  /\ lastOp.op = "something" =>
       /\ lastOp.out.kind = "return"
       /\ QueriesSomething(heap, lastOp.out.value)
       /\ Maybe_unwrap(heap, lastOp.out.value.n).out = Return(lastOp.arg)
  /\ lastOp.op = "success" =>
       /\ lastOp.out.kind = "return"
       /\ QueriesSuccess(heap, lastOp.out.value)
       /\ Result_unwrap(heap, lastOp.out.value.n).out = Return(lastOp.arg)

\* something(v) was called with v a Result.
C4_Witness ==
  /\ lastOp.op = "something"
  /\ InstanceOf(heap, lastOp.arg, {"Success", "Failure"})
  /\ lastOp.out.kind = "return"

\* C5: for every Result, one of getSuccess() / getFailure() is a Something and the
\* other a Nothing: Success(v) gives Something(v) and Nothing, Failure(e) gives
\* Nothing and Something(e); and a call made returns just that.
C5_Projection(h, i, s, f) ==
  /\ s.out.kind = "return"
  /\ f.out.kind = "return"
  /\ IF h[i].cls = "Success"
     THEN /\ QueriesSomething(s.heap, s.out.value)
          /\ Maybe_unwrap(s.heap, s.out.value.n).out = Return(h[i].value)
          /\ QueriesNothing(f.heap, f.out.value)
     ELSE /\ QueriesSomething(f.heap, f.out.value)
          /\ Maybe_unwrap(f.heap, f.out.value.n).out = Return(h[i].error)
          /\ QueriesNothing(s.heap, s.out.value)

C5_GetSuccessGetFailure ==
  /\ \A i \in Results(heap) :
       C5_Projection(heap, i, Result_getSuccess(heap, i), Result_getFailure(heap, i))
  /\ lastOp.op = "Result.getSuccess" =>
       /\ lastOp.out.kind = "return"
       /\ IF heap[lastOp.self.n].cls = "Success"
          THEN /\ QueriesSomething(heap, lastOp.out.value)
               /\ Maybe_unwrap(heap, lastOp.out.value.n).out = Return(heap[lastOp.self.n].value)
          ELSE QueriesNothing(heap, lastOp.out.value)
  /\ lastOp.op = "Result.getFailure" =>
       /\ lastOp.out.kind = "return"
       /\ IF heap[lastOp.self.n].cls = "Failure"
          THEN /\ QueriesSomething(heap, lastOp.out.value)
               /\ Maybe_unwrap(heap, lastOp.out.value.n).out = Return(heap[lastOp.self.n].error)
          ELSE QueriesNothing(heap, lastOp.out.value)

\* getSuccess() was called on a Success that holds null.
C5_Witness ==
  /\ lastOp.op = "Result.getSuccess"
  /\ heap[lastOp.self.n].cls = "Success"
  /\ heap[lastOp.self.n].value = Null
  /\ lastOp.out.kind = "return"

\* A chained expression has been evaluated: all its calls ran, or one threw.
Finished == results # <<>> /\ (script = <<>> \/ Last(results).out.kind = "throw")

\* C6 as stated: for every v and e, something(v).getSuccessOr(e).getSuccess().unwrap()
\* is v and nothing().getSuccessOr(e).unwrapFailure() is e.
C6_Original ==
  Finished =>
    Last(results).out =
      Return(IF results[1].op = "something" THEN results[1].arg ELSE results[2].arg)

\* C6: something(v).getSuccessOr(e).getSuccess().unwrap() is v for every v and e;
\* nothing().getSuccessOr(e).unwrapFailure() is e for every e other than null and
\* undefined, and with e null or undefined getSuccessOr(e) throws an assertion error.
C6_RoundTrip ==
  Finished =>
    IF results[1].op = "something"
    THEN Len(results) = 4 /\ Last(results).out = Return(results[1].arg)
    ELSE IF IsAbsent(results[2].arg)
         THEN Len(results) = 2 /\ Last(results).out = Throw(AssertionError)
         ELSE Len(results) = 3 /\ Last(results).out = Return(results[2].arg)

\* something(undefined).getSuccessOr(null).getSuccess().unwrap() ran to its end.
C6_Witness ==
  /\ Finished
  /\ Len(results) = 4
  /\ results[1].op = "something"
  /\ results[1].arg = Undefined
  /\ results[2].arg = Null
  /\ results[4].op = "Maybe.unwrap"

\* C7 as stated: getSuccessOr(err) never throws: on Nothing it returns a Failure
\* that holds err, on Something(v) a Success that holds v, for every err.
C7_Original ==
  lastOp.op = "Maybe.getSuccessOr" =>
    /\ lastOp.out.kind = "return"
    /\ IF heap[lastOp.self.n].cls = "Nothing"
       THEN /\ QueriesFailure(heap, lastOp.out.value)
            /\ Result_unwrapFailure(heap, lastOp.out.value.n).out = Return(lastOp.arg)
       ELSE /\ QueriesSuccess(heap, lastOp.out.value)
            /\ Result_unwrap(heap, lastOp.out.value.n).out = Return(heap[lastOp.self.n].value)

\* C7: something(v).getSuccessOr(err) returns a Success that holds v for every err
\* and never throws; nothing().getSuccessOr(err) returns a Failure that holds err
\* for every err other than null and undefined, and for err null or undefined it
\* throws an assertion error and constructs no Failure.
C7_GetSuccessOr ==
  [][Called({"Maybe.getSuccessOr"}) =>
       LET self == lastOp'.self.n
           out == lastOp'.out
       IN IF heap[self].cls = "Something"
          THEN /\ out = Return(Ref(Len(heap) + 1))
               /\ QueriesSuccess(heap', out.value)
               /\ Result_unwrap(heap', out.value.n).out = Return(heap[self].value)
          ELSE IF IsAbsent(lastOp'.arg)
               THEN out = Throw(AssertionError) /\ heap' = heap
               ELSE /\ out = Return(Ref(Len(heap) + 1))
                    /\ QueriesFailure(heap', out.value)
                    /\ Result_unwrapFailure(heap', out.value.n).out = Return(lastOp'.arg)]_vars

\* nothing().getSuccessOr(21) returned a Failure that holds 21.
C7_Witness ==
  /\ lastOp.op = "Maybe.getSuccessOr"
  /\ heap[lastOp.self.n].cls = "Nothing"
  /\ lastOp.arg = Num(21)
  /\ lastOp.out.kind = "return"
  /\ heap[lastOp.out.value.n] = Obj("Failure", NoField, Num(21))

\* C8: unwrap() returns the value of a Something or a Success and throws
\* ImproperUnwrapError on a Nothing or a Failure; unwrapFailure() returns the error
\* of a Failure and throws ImproperUnwrapError on a Success.  The error thrown
\* carries the fixed message that names the receiver's variant, and the heap is as
\* it was.
C8_Unwrap ==
  [][Called({"Maybe.unwrap", "Result.unwrap", "Result.unwrapFailure"}) =>
       LET o == heap[lastOp'.self.n]
           holds == IF lastOp'.op = "Result.unwrapFailure"
                    THEN o.cls = "Failure"
                    ELSE o.cls \in {"Something", "Success"}
       IN /\ heap' = heap
          /\ IF holds
             THEN lastOp'.out = Return(IF o.cls = "Failure" THEN o.error ELSE o.value)
             ELSE /\ lastOp'.out.kind = "throw"
                  /\ lastOp'.out.name = "ImproperUnwrapError"
                  /\ lastOp'.out.name # "ExpectationError"
                  /\ lastOp'.out.message = "Attempted to unwrap a " \o o.cls \o " value"]_vars

\* unwrapFailure() was called on a Success and threw.
C8_Witness ==
  /\ lastOp.op = "Result.unwrapFailure"
  /\ heap[lastOp.self.n].cls = "Success"
  /\ lastOp.out.kind = "throw"

\* C9: expect(msg) on a Nothing or a Failure and expectFailure(msg) on a Success
\* throw an ExpectationError whose message is msg; expect(msg) on Something(v) or
\* Success(v) returns v and expectFailure(msg) on Failure(e) returns e.
C9_Expect ==
  lastOp.op \in {"Maybe.expect", "Result.expect", "Result.expectFailure"} =>
    LET o == heap[lastOp.self.n]
        holds == IF lastOp.op = "Result.expectFailure"
                 THEN o.cls = "Failure"
                 ELSE o.cls \in {"Something", "Success"}
    IN IF holds
       THEN lastOp.out = Return(IF o.cls = "Failure" THEN o.error ELSE o.value)
       ELSE /\ lastOp.out.kind = "throw"
            /\ lastOp.out.name = "ExpectationError"
            /\ lastOp.out.message = lastOp.arg.s

\* expectFailure("boom") was called on a Success and threw.
C9_Witness ==
  /\ lastOp.op = "Result.expectFailure"
  /\ heap[lastOp.self.n].cls = "Success"
  /\ lastOp.arg = Str("boom")
  /\ lastOp.out.kind = "throw"

\* C10: and(other) returns the receiver itself on a Nothing or a Failure and other
\* itself on a Something or a Success; or(other) returns the receiver itself on a
\* Something or a Success and other itself on a Nothing or a Failure.  Nothing is
\* constructed.  (other is a container of the receiver's type: a Maybe or a Result
\* for the methods of Maybe, a Result for those of Result.)
C10_AndOr ==
  [][(/\ Called({"Maybe.and", "Maybe.or", "Result.and", "Result.or"})
      /\ InstanceOf(heap, lastOp'.arg,
                    IF lastOp'.op \in {"Maybe.and", "Maybe.or"}
                    THEN {"Nothing", "Something", "Success", "Failure"}
                    ELSE {"Success", "Failure"})) =>
       LET o == heap[lastOp'.self.n]
           full == o.cls \in {"Something", "Success"}
           isAnd == lastOp'.op \in {"Maybe.and", "Result.and"}
       IN /\ heap' = heap
          /\ lastOp'.out = Return(IF full = isAnd THEN lastOp'.arg ELSE lastOp'.self)]_vars

\* or(other) was called on a Failure with another Result and returned that one.
C10_Witness ==
  /\ lastOp.op = "Result.or"
  /\ heap[lastOp.self.n].cls = "Failure"
  /\ InstanceOf(heap, lastOp.arg, {"Success", "Failure"})
  /\ lastOp.arg # lastOp.self
  /\ lastOp.out = Return(lastOp.arg)

\* C11: andThen(f) on Something(v) or Success(v) calls f once, with v, and returns
\* the very container f returned, constructing nothing itself; on a Nothing or a
\* Failure it returns the receiver itself and does not call f.  (f returns a
\* container of the receiver's type.)
C11_AndThen ==
  [][Called({"Maybe.andThen", "Result.andThen"}) =>
       LET o == heap[lastOp'.self.n]
           c == Call(heap, lastOp'.arg, o.value)
           typed == InstanceOf(c.heap, c.ret,
                               IF lastOp'.op = "Maybe.andThen"
                               THEN {"Nothing", "Something"}
                               ELSE {"Success", "Failure"})
       IN IF o.cls \in {"Something", "Success"}
          THEN /\ lastOp'.calls = <<o.value>>
               /\ heap' = c.heap
               /\ typed => lastOp'.out = Return(c.ret)
          ELSE /\ lastOp'.calls = <<>>
               /\ heap' = heap
               /\ lastOp'.out = Return(lastOp'.self)]_vars

\* andThen(x => something(x)) was called on a Something and returned the new
\* Something the callback constructed.
C11_Witness ==
  /\ lastOp.op = "Maybe.andThen"
  /\ heap[lastOp.self.n].cls = "Something"
  /\ lastOp.arg = Fn("thenSomething")
  /\ lastOp.calls = <<heap[lastOp.self.n].value>>
  /\ lastOp.out = Return(Ref(Len(heap)))
  /\ heap[Len(heap)] = Obj("Something", heap[lastOp.self.n].value, NoField)

\* C12: map(f) on Something(v) returns a new Something that holds f(v) and on
\* Success(v) a new Success that holds f(v), also when f(v) is null or undefined,
\* and calls f once, with v; on a Nothing or a Failure it returns the receiver
\* itself and does not call f.
C12_Map ==
  [][Called({"Maybe.map", "Result.map"}) =>
       LET o == heap[lastOp'.self.n]
           c == Call(heap, lastOp'.arg, o.value)
           out == lastOp'.out
       IN IF o.cls \in {"Something", "Success"}
          THEN /\ lastOp'.calls = <<o.value>>
               /\ out = Return(Ref(Len(c.heap) + 1))
               /\ heap' = Append(c.heap, Obj(o.cls, c.ret, NoField))
               /\ IF o.cls = "Something"
                  THEN /\ QueriesSomething(heap', out.value)
                       /\ Maybe_unwrap(heap', out.value.n).out = Return(c.ret)
                  ELSE /\ QueriesSuccess(heap', out.value)
                       /\ Result_unwrap(heap', out.value.n).out = Return(c.ret)
          ELSE /\ lastOp'.calls = <<>>
               /\ heap' = heap
               /\ out = Return(lastOp'.self)]_vars

\* map(() => null) was called on a Something and returned a Something that holds null.
C12_Witness ==
  /\ lastOp.op = "Maybe.map"
  /\ heap[lastOp.self.n].cls = "Something"
  /\ lastOp.arg = Fn("toNull")
  /\ lastOp.calls # <<>>
  /\ lastOp.out = Return(Ref(Len(heap)))
  /\ heap[Len(heap)] = Obj("Something", Null, NoField)

\* Two values are the same: identical, or containers of the same variant built
\* by separate calls of one callback and holding the same payload.
RECURSIVE SameValue(_, _, _)

SameValue(h, a, b) ==
  \/ a = b
  \/ /\ a.t = "object"
     /\ b.t = "object"
     /\ h[a.n].cls = h[b.n].cls
     /\ h[a.n].cls # "Nothing"
     /\ LET pa == IF h[a.n].cls = "Failure" THEN h[a.n].error ELSE h[a.n].value
            pb == IF h[b.n].cls = "Failure" THEN h[b.n].error ELSE h[b.n].value
        IN SameValue(h, pa, pb)

\* C13: for every v, f and g, something(v).map(f).map(g) and
\* something(v).map(x => g(f(x))) are both a Something and hold the same value,
\* g(f(v)); success(v) likewise gives two Successes that hold the same value; for
\* nothing() and failure(e) each side is its receiver, unchanged.
C13_MapComposes ==
  Finished =>
    /\ Len(results) = 5
    /\ \A i \in 1..5 : results[i].out.kind = "return"
    /\ LET l == results[3].out.value
           r == results[5].out.value
           made == results[1].op
       IN IF made \in {"something", "success"}
          THEN /\ heap[l.n].cls = (IF made = "something" THEN "Something" ELSE "Success")
               /\ heap[r.n].cls = heap[l.n].cls
               /\ SameValue(heap, heap[l.n].value, heap[r.n].value)
               /\ l # r
               /\ heap[results[1].out.value.n].value = results[1].arg
               /\ heap[results[4].out.value.n].value = results[4].arg
          ELSE /\ l = results[1].out.value
               /\ r = results[4].out.value
               /\ heap[l.n].cls = (IF made = "nothing" THEN "Nothing" ELSE "Failure")
               /\ heap[r.n].cls = heap[l.n].cls
               /\ made = "failure" => heap[l.n].error = results[1].arg /\ heap[r.n].error = results[4].arg

\* success(5).map(double).map(double) and success(5).map(x => double(double(x)))
\* both hold 20.
C13_Witness ==
  /\ Finished
  /\ Len(results) = 5
  /\ results[1].op = "success"
  /\ results[1].arg = Num(5)
  /\ results[2].arg = Fn("double")
  /\ results[3].arg = Fn("double")
  /\ heap[results[3].out.value.n] = Obj("Success", Num(20), NoField)
  /\ heap[results[5].out.value.n] = Obj("Success", Num(20), NoField)

\* C14: mapFailure(f) on a Success returns the receiver itself and does not call
\* f; on Failure(e) with f(e) neither null nor undefined it calls f once, with e,
\* and returns a new Failure whose unwrapFailure() is f(e), while the receiver
\* still holds e.
C14_MapFailure ==
  [][Called({"Result.mapFailure"}) =>
       LET self == lastOp'.self.n
           o == heap[self]
           c == Call(heap, lastOp'.arg, o.error)
           out == lastOp'.out
       IN IF o.cls = "Success"
          THEN /\ lastOp'.calls = <<>>
               /\ heap' = heap
               /\ out = Return(lastOp'.self)
          ELSE ~IsAbsent(c.ret) =>
                 /\ lastOp'.calls = <<o.error>>
                 /\ out = Return(Ref(Len(c.heap) + 1))
                 /\ Len(heap') = Len(c.heap) + 1
                 /\ QueriesFailure(heap', out.value)
                 /\ Result_unwrapFailure(heap', out.value.n).out = Return(c.ret)
                 /\ heap'[self] = o
                 /\ Result_unwrapFailure(heap', self).out = Return(o.error)]_vars

\* mapFailure(double) was called on Failure(21) and returned a Failure that holds
\* 42, the receiver still holding 21.
C14_Witness ==
  /\ lastOp.op = "Result.mapFailure"
  /\ lastOp.arg = Fn("double")
  /\ heap[lastOp.self.n] = Obj("Failure", NoField, Num(21))
  /\ lastOp.calls = <<Num(21)>>
  /\ lastOp.out = Return(Ref(Len(heap)))
  /\ heap[Len(heap)] = Obj("Failure", NoField, Num(42))

\* C15: mapFailure(f) on Failure(e) with f(e) null or undefined throws an
\* assertion error after calling f once: it constructs nothing, so no Failure
\* that holds an absent error exists, and the receiver is still a Failure that
\* holds e.
C15_MapFailureAbsent ==
  [][(/\ Called({"Result.mapFailure"})
      /\ heap[lastOp'.self.n].cls = "Failure"
      /\ IsAbsent(Call(heap, lastOp'.arg, heap[lastOp'.self.n].error).ret)) =>
       LET self == lastOp'.self.n
       IN /\ lastOp'.out = Throw(AssertionError)
          /\ lastOp'.calls = <<heap[self].error>>
          /\ heap' = heap
          /\ \A i \in DOMAIN heap' : heap'[i].cls = "Failure" => ~IsAbsent(heap'[i].error)
          /\ QueriesFailure(heap', lastOp'.self)
          /\ Result_unwrapFailure(heap', self).out = Return(heap[self].error)]_vars

\* mapFailure of a callback that returns undefined was called on a Failure and threw.
C15_Witness ==
  /\ lastOp.op = "Result.mapFailure"
  /\ lastOp.arg = Fn("spy")
  /\ heap[lastOp.self.n].cls = "Failure"
  /\ lastOp.calls = <<heap[lastOp.self.n].error>>
  /\ lastOp.out = Throw(AssertionError)

\* C16: filter(pred) on Something(v) calls pred once, with v, and returns the
\* receiver itself when pred(v) is true and the Nothing when pred(v) is false; on
\* a Nothing it returns the receiver itself and does not call pred.  Nothing is
\* constructed.
C16_Filter ==
  [][Called({"Maybe.filter"}) =>
       LET o == heap[lastOp'.self.n]
           c == Call(heap, lastOp'.arg, o.value)
           out == lastOp'.out
       IN IF o.cls = "Something"
          THEN /\ lastOp'.calls = <<o.value>>
               /\ heap' = c.heap
               /\ c.ret = Bool(TRUE) => out = Return(lastOp'.self)
               /\ c.ret = Bool(FALSE) =>
                    /\ out.kind = "return"
                    /\ out.value # lastOp'.self
                    /\ QueriesNothing(heap', out.value)
          ELSE /\ lastOp'.calls = <<>>
               /\ heap' = heap
               /\ out = Return(lastOp'.self)]_vars

\* filter(x => x === 21) was called on a Something that holds null and returned
\* the Nothing.
C16_Witness ==
  /\ lastOp.op = "Maybe.filter"
  /\ lastOp.arg = Fn("isEq21")
  /\ heap[lastOp.self.n] = Obj("Something", Null, NoField)
  /\ lastOp.calls = <<Null>>
  /\ lastOp.out = Return(Ref(NothingInstance))

\* C17: inspect(f) calls f once, with the value, on a Something and on a Success,
\* and inspectFailure(f) calls f once, with the error, on a Failure; on the other
\* variant f is not called.  In every case the call returns the receiver itself,
\* whatever f returned, and the receiver is as it was.
C17_Inspect ==
  [][Called({"Maybe.inspect", "Result.inspect", "Result.inspectFailure"}) =>
       LET self == lastOp'.self.n
           o == heap[self]
           onFailure == lastOp'.op = "Result.inspectFailure"
           holds == IF onFailure THEN o.cls = "Failure" ELSE o.cls \in {"Something", "Success"}
           payload == IF onFailure THEN o.error ELSE o.value
       IN /\ lastOp'.calls = IF holds THEN <<payload>> ELSE <<>>
          /\ lastOp'.out = Return(lastOp'.self)
          /\ heap'[self] = o
          /\ heap' = (IF holds THEN Call(heap, lastOp'.arg, payload).heap ELSE heap)
          /\ VariantAnswers(heap', self) = VariantAnswers(heap, self)]_vars

\* inspectFailure of a callback that returns a boolean was called on a Failure:
\* the callback ran once and the Failure itself came back.
C17_Witness ==
  /\ lastOp.op = "Result.inspectFailure"
  /\ lastOp.arg = Fn("isEq21")
  /\ heap[lastOp.self.n].cls = "Failure"
  /\ lastOp.calls = <<heap[lastOp.self.n].error>>
  /\ Call(heap, lastOp.arg, heap[lastOp.self.n].error).ret \in {Bool(TRUE), Bool(FALSE)}
  /\ lastOp.out = Return(lastOp.self)

\* C18: isSomethingAnd(pred) and isNothingOr(pred) return pred(v) on Something(v),
\* isSuccessAnd(pred) returns pred(v) on Success(v) and isFailureAnd(pred) returns
\* pred(e) on Failure(e), pred being called once; on the other variant pred is not
\* called and the answer is true for isNothingOr and false for the other three.
\* (pred returns a boolean; the methods of Maybe return whatever pred returned.)
C18_PredicateQueries ==
  [][Called({"Maybe.isSomethingAnd", "Maybe.isNothingOr", "Result.isSuccessAnd", "Result.isFailureAnd"}) =>
       LET o == heap[lastOp'.self.n]
           op == lastOp'.op
           holds == IF op = "Result.isFailureAnd" THEN o.cls = "Failure"
                    ELSE o.cls \in {"Something", "Success"}
           payload == IF op = "Result.isFailureAnd" THEN o.error ELSE o.value
           c == Call(heap, lastOp'.arg, payload)
       IN /\ heap' = heap
          /\ IF holds
             THEN /\ lastOp'.calls = <<payload>>
                  /\ (TypeOf(c.ret) = "boolean" \/ op \in {"Maybe.isSomethingAnd", "Maybe.isNothingOr"}) =>
                       lastOp'.out = Return(c.ret)
             ELSE /\ lastOp'.calls = <<>>
                  /\ lastOp'.out = Return(Bool(op = "Maybe.isNothingOr"))]_vars

\* isFailureAnd(x => x === 21) was called on Failure(21) and returned true.
C18_Witness ==
  /\ lastOp.op = "Result.isFailureAnd"
  /\ lastOp.arg = Fn("isEq21")
  /\ heap[lastOp.self.n] = Obj("Failure", NoField, Num(21))
  /\ lastOp.calls = <<Num(21)>>
  /\ lastOp.out = Return(Bool(TRUE))

\* The argument of a call has the type the method declares for it: a Maybe for
\* and / or of Maybe, a Result for those of Result, a callback that returns a
\* Maybe (a Result) for andThen, one that returns a boolean for filter and the
\* predicate queries, a function that returns for every other callback.  The
\* parameters left admit the arguments the model passes.
DeclaredType(h, op, arg) ==
  CASE op \in {"Maybe.and", "Maybe.or"} -> InstanceOf(h, arg, {"Nothing", "Something"})
    [] op \in {"Result.and", "Result.or"} -> InstanceOf(h, arg, {"Success", "Failure"})
    [] op = "Maybe.andThen" -> arg \in {Fn("thenSomething"), Fn("thenNothing")}
    [] op = "Result.andThen" -> arg \in {Fn("thenSuccess")}
    [] op \in {"Maybe.filter", "Maybe.isSomethingAnd", "Maybe.isNothingOr",
               "Result.isSuccessAnd", "Result.isFailureAnd"} -> arg \in {Fn("isEq21")}
    [] OTHER -> Returning(op, arg)

\* The four points: expect / expectFailure and unwrap / unwrapFailure on the
\* variant without the payload, failure() of an absent error, mapFailure of a
\* callback that returns an absent error.
FourPoints(h, op, self, arg) ==
  \/ op \in {"Maybe.expect", "Result.expect", "Maybe.unwrap", "Result.unwrap"}
       /\ h[self.n].cls \in {"Nothing", "Failure"}
  \/ op \in {"Result.expectFailure", "Result.unwrapFailure"} /\ h[self.n].cls = "Success"
  \/ op = "failure" /\ IsAbsent(arg)
  \/ op = "Result.mapFailure" /\ h[self.n].cls = "Failure" /\ IsAbsent(Call(h, arg, h[self.n].error).ret)

\* C19 as stated: a call with arguments of the declared type throws at the four
\* points and nowhere else.
C19_Original ==
  [][(lastOp = NoCall /\ lastOp' # NoCall /\ DeclaredType(heap, lastOp'.op, lastOp'.arg)) =>
       (lastOp'.out.kind = "throw" <=> FourPoints(heap, lastOp'.op, lastOp'.self, lastOp'.arg))]_vars

\* C19: a call of a factory or of a method of Maybe or Result, with arguments of
\* the declared type, throws at five points and returns everywhere else: the four
\* points above, and getSuccessOr(err) on a Nothing with err null or undefined.
C19_Totality ==
  [][(lastOp = NoCall /\ lastOp' # NoCall /\ DeclaredType(heap, lastOp'.op, lastOp'.arg)) =>
       (lastOp'.out.kind = "throw" <=>
          \/ FourPoints(heap, lastOp'.op, lastOp'.self, lastOp'.arg)
          \/ /\ lastOp'.op = "Maybe.getSuccessOr"
             /\ heap[lastOp'.self.n].cls = "Nothing"
             /\ IsAbsent(lastOp'.arg))]_vars

\* getSuccessOr(undefined), an argument of the declared type, was called on the
\* Nothing and threw.
C19_Witness ==
  /\ lastOp.op = "Maybe.getSuccessOr"
  /\ heap[lastOp.self.n].cls = "Nothing"
  /\ lastOp.arg = Undefined
  /\ DeclaredType(heap, lastOp.op, lastOp.arg)
  /\ lastOp.out.kind = "throw"

\* C20: no call throws UnreachableCodeError, and for every container constructed
\* (looked at between two calls) toString() and the method util.inspect calls
\* return a string: that of the branch of the container's variant.
C20_NeverUnreachable ==
  /\ lastOp.out.name # "UnreachableCodeError"
  /\ lastOp = NoCall =>
       /\ \A i \in Maybes(heap) :
            /\ Maybe_toString(heap, i).out.kind = "return"
            /\ Maybe_utilInspectCustom(heap, i).out.kind = "return"
            /\ heap[i].cls = "Nothing" <=> Maybe_toString(heap, i).out = Return(Str("Maybe{ Nothing }"))
       /\ \A i \in Results(heap) :
            /\ Result_toString(heap, i).out.kind = "return"
            /\ Result_utilInspectCustom(heap, i).out.kind = "return"
            /\ Result_toString(heap, i).lines[2] = Line(2, heap[i].cls \o "{")
            /\ Result_utilInspectCustom(heap, i).lines[2] = Line(2, heap[i].cls \o "{")
  /\ lastOp.op \in {"Maybe.toString", "Maybe.utilInspectCustom", "Result.toString",
                    "Result.utilInspectCustom"} =>
       lastOp.out.kind = "return" /\ TypeOf(lastOp.out.value) = "string"

\* toString() was called on a Success that holds a Failure, and returned the text
\* of the two nested branches.
C20_Witness ==
  /\ lastOp.op = "Result.toString"
  /\ heap[lastOp.self.n].cls = "Success"
  /\ InstanceOf(heap, heap[lastOp.self.n].value, {"Failure"})
  /\ heap[heap[lastOp.self.n].value.n].error = Num(21)
  /\ lastOp.out.kind = "return"

\* C21: no call, whether it returns or throws and whatever its callback does,
\* changes the variant or the payload of a container that exists: the heap only
\* grows.  A call that returns a container unlike its receiver returns another
\* container, and map on a Something or a Success and mapFailure on a Failure
\* return one constructed by the call.
C21_Immutable ==
  [][lastOp = NoCall =>
       /\ Len(heap') >= Len(heap)
       /\ \A i \in DOMAIN heap : heap'[i] = heap[i]
       /\ (lastOp'.out.kind = "return" /\ lastOp'.self.t = "object" /\ lastOp'.out.value.t = "object") =>
            LET self == lastOp'.self.n
                r == lastOp'.out.value.n
            IN /\ r \in DOMAIN heap'
               /\ heap'[r] # heap[self] => r # self
               /\ (/\ lastOp'.op \in {"Maybe.map", "Result.map", "Result.mapFailure"}
                   /\ lastOp'.calls # <<>>) => r = Len(heap')  /\ r > Len(heap)]_vars

\* map(double) was called on Something(21): it returned a new Something that
\* holds 42, and the receiver still holds 21.
C21_Witness ==
  /\ lastOp.op = "Maybe.map"
  /\ lastOp.arg = Fn("double")
  /\ heap[lastOp.self.n] = Obj("Something", Num(21), NoField)
  /\ lastOp.out = Return(Ref(Len(heap)))
  /\ lastOp.out.value # lastOp.self
  /\ heap[Len(heap)] = Obj("Something", Num(42), NoField)

\* The callback invocations of the calls made so far, in the order they happened:
\* which callback, with which argument.
RECURSIVE CallLog(_)

CallLog(rs) ==
  IF rs = <<>> THEN <<>>
  ELSE CallLog(SubSeq(rs, 1, Len(rs) - 1))
         \o [j \in DOMAIN Last(rs).calls |-> [f |-> Last(rs).arg, x |-> Last(rs).calls[j]]]

\* C22: in c.inspect(f).map(g).andThen(h) each callback runs inside the call it
\* was passed to: once, with the payload, when the receiver is a Something or a
\* Success, and not at all on a Nothing or a Failure.  The invocations so far are
\* those of the calls made so far, in program order: f with v, then g with v,
\* then h with g(v); a callback that throws ends the expression and the later
\* ones never run; and a call that has returned gains no invocation afterwards.
C22_CallbackOrder ==
  results # <<>> =>
    LET made == results[1].op
        v == results[1].arg
        n == Len(results)
        f == [f |-> results[2].arg, x |-> v]
        g == [f |-> results[3].arg, x |-> v]
        h == [f |-> results[4].arg, x |-> heap[results[3].out.value.n].value]
    IN /\ \A i \in DOMAIN results : i < n => results[i].out.kind = "return"
       /\ IF made \in {"nothing", "failure"}
          THEN /\ CallLog(results) = <<>>
               /\ \A i \in DOMAIN results : results[i].out = Return(results[1].out.value)
          ELSE /\ CallLog(results) =
                    CASE n = 1 -> <<>>
                      [] n = 2 -> <<f>>
                      [] n = 3 -> <<f, g>>
                      [] n = 4 -> <<f, g, h>>
               /\ \A i \in 2..n : results[i].calls = <<CallLog(results)[i - 1].x>>
               /\ n >= 3 /\ results[3].out.kind = "return" =>
                    LET c == Call(heap, results[3].arg, v)
                    IN SameValue(c.heap, heap[results[3].out.value.n].value, c.ret)
               /\ (n < 4 /\ script # <<>> /\ lastOp.out.kind = "throw") =>
                    /\ lastOp.arg = Fn("raise")
                    /\ lastOp.out = Throw(CallbackError)

\* success(21).inspect(spy).map(double).andThen(x => success(x)) ran to its end:
\* spy saw 21, double saw 21, the last callback saw 42.
C22_Witness ==
  /\ Finished
  /\ Len(results) = 4
  /\ results[1].op = "success"
  /\ results[1].arg = Num(21)
  /\ CallLog(results) = <<[f |-> Fn("spy"), x |-> Num(21)], [f |-> Fn("double"), x |-> Num(21)],
                          [f |-> Fn("thenSuccess"), x |-> Num(42)]>>
  /\ results[4].out.kind = "return"

\* Values that are no containers.
Primitives ==
  {Null, Undefined, Num(0), Num(21), Str(""), Str("oops"), Bool(TRUE), Bool(FALSE), Fn("spy")}

\* C23: isMaybe(x) returns true exactly when x is a Something or the Nothing and
\* isResult(x) exactly when x is a Success or a Failure: both return false for
\* null, undefined and every other value that is no container, isMaybe false for
\* every Result and isResult false for every Maybe; neither throws, and a call
\* made returns just that.
C23_TypeGuards ==
  /\ lastOp = NoCall =>
       /\ \A x \in Primitives :
            isMaybe(heap, x).out = Return(Bool(FALSE)) /\ isResult(heap, x).out = Return(Bool(FALSE))
       /\ \A i \in DOMAIN heap :
            /\ isMaybe(heap, Ref(i)).out = Return(Bool(heap[i].cls \in {"Something", "Nothing"}))
            /\ isResult(heap, Ref(i)).out = Return(Bool(heap[i].cls \in {"Success", "Failure"}))
            /\ isMaybe(heap, Ref(i)).out # isResult(heap, Ref(i)).out
  /\ lastOp.op \in {"isMaybe", "isResult"} =>
       LET x == lastOp.arg
           classes == IF lastOp.op = "isMaybe" THEN {"Something", "Nothing"} ELSE {"Success", "Failure"}
       IN lastOp.out = Return(Bool(x.t = "object" /\ heap[x.n].cls \in classes))

\* isMaybe was called with a Success and returned false.
C23_Witness ==
  /\ lastOp.op = "isMaybe"
  /\ InstanceOf(heap, lastOp.arg, {"Success"})
  /\ lastOp.out = Return(Bool(FALSE))

\* C24: something(v).map(f).or(something(d)).unwrap() is f(v) and
\* nothing().map(f).or(something(d)).unwrap() is d, for every v, f and d (42 and 0
\* with v = 21, f doubling and d = 0); success(v).map(f).unwrap() is f(v); and for
\* e neither null nor undefined failure(e).isSuccess() is false and
\* failure(e).unwrapFailure() is e.  No call of these expressions throws.
C24_ChainedFallback ==
  Finished =>
    LET made == results[1].op
        v == results[1].literal
        n == Len(results)
        fv == Call(SubSeq(heap, 1, 2), results[2].arg, v).ret
    IN /\ \A i \in DOMAIN results : results[i].out.kind = "return"
       /\ CASE made = "something" ->
                 /\ n = 4
                 /\ Last(results).out = Return(fv)
                 /\ (v = Num(21) /\ results[2].arg = Fn("double")) => Last(results).out = Return(Num(42))
            [] made = "nothing" ->
                 /\ n = 4
                 /\ Last(results).out = Return(results[3].literal)
                 /\ results[3].literal = Num(0) => Last(results).out = Return(Num(0))
            [] made = "success" -> n = 3 /\ Last(results).out = Return(fv)
            [] made = "failure" ->
                 /\ n = 2
                 /\ Last(results).out =
                      IF results[2].op = "Result.isSuccess" THEN Return(Bool(FALSE)) ELSE Return(v)

\* something(21).map(double).or(something(0)).unwrap() returned 42.
C24_Witness ==
  /\ Finished
  /\ Len(results) = 4
  /\ results[1].op = "something"
  /\ results[1].literal = Num(21)
  /\ results[2].arg = Fn("double")
  /\ results[3].literal = Num(0)
  /\ InstanceOf(heap, results[3].arg, {"Something"})
  /\ results[4].out = Return(Num(42))

\* a in the heap h1 and b in the heap h2 are the same value: equal, or containers
\* of the same variant that hold the same payload.
RECURSIVE SameIn(_, _, _, _)

SameIn(h1, a, h2, b) ==
  IF a.t = "object" /\ b.t = "object"
  THEN /\ h1[a.n].cls = h2[b.n].cls
       /\ h1[a.n].cls = "Nothing" \/
            LET pa == IF h1[a.n].cls = "Failure" THEN h1[a.n].error ELSE h1[a.n].value
                pb == IF h2[b.n].cls = "Failure" THEN h2[b.n].error ELSE h2[b.n].value
            IN SameIn(h1, pa, h2, pb)
  ELSE a = b

\* Two outcomes agree: the same error, or the same value.
Agree(r1, r2) ==
  IF r1.out.kind = "throw" THEN r2.out = r1.out
  ELSE r2.out.kind = "return" /\ SameIn(r1.heap, r1.out.value, r2.heap, r2.out.value)

\* The calls <<method, argument>> that can be made on a Maybe / a Result, with
\* the containers 1..k as arguments.
AllCallbacks == Mappers \cup Predicates \cup Inspectors \cup Binders \cup ResultBinders \cup Faulty

ArgValues(k) == {Null, Undefined, Num(21)} \cup {Ref(a) : a \in 1..k}

CallsOf(k, cls) ==
  IF cls \in {"Nothing", "Something"}
  THEN ({"Maybe.isNothing", "Maybe.isSomething", "Maybe.unwrap", "Maybe.toString",
         "Maybe.utilInspectCustom"} \X {Undefined})
       \cup ({"Maybe.and", "Maybe.or", "Maybe.getSuccessOr"} \X ArgValues(k))
       \cup ({"Maybe.expect"} \X Messages)
       \cup ((CallbackOps \cap MaybeOps) \X AllCallbacks)
  ELSE ({"Result.getFailure", "Result.getSuccess", "Result.isFailure", "Result.isSuccess",
         "Result.unwrap", "Result.unwrapFailure", "Result.toString", "Result.utilInspectCustom"}
          \X {Undefined})
       \cup ({"Result.and", "Result.or"} \X ArgValues(k))
       \cup ({"Result.expect", "Result.expectFailure"} \X Messages)
       \cup ((CallbackOps \cap ResultOps) \X AllCallbacks)

\* C25: the outcome of a call depends on the receiver's variant and payload and
\* on the arguments only.  For two containers of the same variant that hold the
\* same payload (or one container at two times), the older one called when no
\* later container existed and the other one called now, every method with every
\* argument gives outcomes that agree: the same error, the same raw value, or
\* containers of the same variant with the same payload.  And a call just made
\* gives, made again on any container like its receiver, an outcome that agrees.
C25_Deterministic ==
  /\ lastOp = NoCall =>
       \A i \in DOMAIN heap : \A j \in i..Len(heap) :
         heap[i] = heap[j] =>
           \A c \in CallsOf(i, heap[i].cls) :
             LET r1 == Invoke(SubSeq(heap, 1, i), c[1], Ref(i), c[2])
                 r2 == Invoke(heap, c[1], Ref(j), c[2])
             IN (\A x \in DOMAIN r1.calls : Accepts(c[2], r1.calls[x])) => Agree(r1, r2)
  /\ (lastOp # NoCall /\ lastOp.self.t = "object") =>
       \A j \in DOMAIN heap :
         heap[j] = heap[lastOp.self.n] =>
           Agree([heap |-> heap, out |-> lastOp.out], Invoke(heap, lastOp.op, Ref(j), lastOp.arg))

\* isSomethingAnd(x => x === 21) was called on the later of two Somethings that
\* hold 21 and returned true.
C25_Witness ==
  /\ lastOp.op = "Maybe.isSomethingAnd"
  /\ lastOp.arg = Fn("isEq21")
  /\ lastOp.out = Return(Bool(TRUE))
  /\ \E i \in DOMAIN heap :
       /\ i < lastOp.self.n
       /\ heap[i] = Obj("Something", Num(21), NoField)
       /\ heap[lastOp.self.n] = heap[i]

\* C26 as stated: the method util.inspect calls on a Result returns the block that
\* names Result and the variant and holds the payload as the stringifier renders
\* it; in a host where node:util cannot be loaded the payload is rendered by
\* string coercion, so the block is that of toString(), and every other method
\* returns what it returns in a host that has node:util.
C26_Original ==
  Finished =>
    /\ results[1].out.kind = "return"
    /\ Len(results) = 3
    /\ LET loaded == <<Obj("Nothing", NoField, NoField)>>
           made == Invoke(loaded, results[2].op, Undefined, results[2].literal)
           self == results[3].self
       IN IF results[3].op = "Result.utilInspectCustom"
          THEN LET r == Result_utilInspectCustom(made.heap, self.n)
                   payload == IF heap[self.n].cls = "Failure" THEN heap[self.n].error ELSE heap[self.n].value
               IN /\ results[3].out.kind = "return"
                  /\ r.lines[1] = Line(0, "Result{")
                  /\ r.lines[2] = Line(2, heap[self.n].cls \o "{")
                  /\ results[3].out =
                       IF results[1].literal = Bool(TRUE)
                       THEN Return(Str(Join(r.lines)))
                       ELSE Result_toString(made.heap, self.n).out
          ELSE results[3].out = Invoke(made.heap, results[3].op, self, results[3].literal).out

\* C27: getSuccessOr checks its argument on a Nothing only.  On Something(v) it
\* returns a new Success that holds v for every err, null and undefined included,
\* the same whatever err is; on the Nothing it throws an assertion error exactly
\* when err is null or undefined.  So getSuccessOr(null) and
\* getSuccessOr(undefined) throw or return by the receiver's variant alone.
C27_CheckedOnNothingOnly ==
  /\ lastOp = NoCall =>
       \A i \in Maybes(heap) : \A err \in Values(heap) :
         LET r == Maybe_getSuccessOr(heap, i, err)
         IN IF heap[i].cls = "Something"
            THEN /\ r.out = Return(Ref(Len(heap) + 1))
                 /\ r.heap = Append(heap, Obj("Success", heap[i].value, NoField))
                 /\ r = Maybe_getSuccessOr(heap, i, Str("another error"))
            ELSE /\ r.out.kind = "throw" <=> IsAbsent(err)
                 /\ r.out.kind = "throw" => r.out = Throw(AssertionError) /\ r.heap = heap
  /\ (lastOp.op = "Maybe.getSuccessOr" /\ IsAbsent(lastOp.arg)) =>
       (lastOp.out.kind = "throw" <=> heap[lastOp.self.n].cls = "Nothing")

\* getSuccessOr(null) was called on a Something and returned a Success that holds
\* the Something's value.
C27_Witness ==
  /\ lastOp.op = "Maybe.getSuccessOr"
  /\ lastOp.arg = Null
  /\ heap[lastOp.self.n].cls = "Something"
  /\ lastOp.out = Return(Ref(Len(heap)))
  /\ heap[Len(heap)] = Obj("Success", heap[lastOp.self.n].value, NoField)

\* Arguments that are no functions.
NonFunctions(h) == {Null, Undefined, Num(21), Str("f")} \cup {Ref(i) : i \in DOMAIN h}

\* C28: a method of Result checks its argument before it looks at the variant.
\* and / or with an argument that is no Result, and andThen, inspect,
\* inspectFailure, map, mapFailure, isSuccessAnd and isFailureAnd with an argument
\* that is no function, throw an assertion error on a Success and on a Failure
\* alike, also on the variant that would return the receiver without using the
\* argument, and call nothing.  The methods of Maybe check nothing: with such an
\* argument and, andThen, filter, inspect and map return the Nothing they are
\* called on, or returns the Something it is called on, and isSomethingAnd and
\* isNothingOr return false and true on the Nothing.
C28_CheckedBeforeDispatch ==
  /\ lastOp = NoCall =>
       /\ \A i \in Results(heap) :
            /\ \A x \in {v \in NonFunctions(heap) : ~InstanceOf(heap, v, {"Success", "Failure"})} :
                 \A op \in {"Result.and", "Result.or"} :
                   Invoke(heap, op, Ref(i), x) = Thr(heap, AssertionError, <<>>)
            /\ \A x \in NonFunctions(heap) : \A op \in CallbackOps \cap ResultOps :
                 Invoke(heap, op, Ref(i), x) = Thr(heap, AssertionError, <<>>)
       /\ \A i \in Maybes(heap) : \A x \in NonFunctions(heap) :
            IF heap[i].cls = "Nothing"
            THEN /\ \A op \in {"Maybe.and", "Maybe.andThen", "Maybe.filter", "Maybe.inspect", "Maybe.map"} :
                      Invoke(heap, op, Ref(i), x) = Ret(heap, Ref(i), <<>>)
                 /\ Invoke(heap, "Maybe.isSomethingAnd", Ref(i), x) = Ret(heap, Bool(FALSE), <<>>)
                 /\ Invoke(heap, "Maybe.isNothingOr", Ref(i), x) = Ret(heap, Bool(TRUE), <<>>)
            ELSE Invoke(heap, "Maybe.or", Ref(i), x) = Ret(heap, Ref(i), <<>>)
  /\ (lastOp.op \in CallbackOps \cap ResultOps /\ lastOp.arg.t # "function") =>
       lastOp.out = Throw(AssertionError) /\ lastOp.calls = <<>>
  /\ (lastOp.op \in {"Result.and", "Result.or"} /\ ~InstanceOf(heap, lastOp.arg, {"Success", "Failure"})) =>
       lastOp.out = Throw(AssertionError)
  /\ (lastOp.op \in CallbackOps \cap MaybeOps /\ lastOp.arg.t # "function"
        /\ heap[lastOp.self.n].cls = "Nothing") =>
       lastOp.out.kind = "return" /\ lastOp.calls = <<>>

\* map was called on a Failure with 21 for a function and threw an assertion
\* error.
C28_Witness ==
  /\ lastOp.op = "Result.map"
  /\ lastOp.arg = Num(21)
  /\ heap[lastOp.self.n].cls = "Failure"
  /\ lastOp.out = Throw(AssertionError)

\* The callbacks that return.
ReturningCallbacks == {f \in AllCallbacks : f.t = "function" /\ f # Fn("raise")}

\* C29: what and, andThen, or, map, mapFailure, inspect and inspectFailure return
\* on a Result is a Success or a Failure, whatever the argument.  andThen on
\* Success(v) with f(v) no Result throws an assertion error, and so do
\* isSuccessAnd on Success(v) and isFailureAnd on Failure(e) with a predicate
\* that returns no boolean: each after calling its callback once.
C29_ResultClosed ==
  /\ lastOp = NoCall =>
       \A i \in Results(heap) :
         /\ \A c \in ({"Result.and", "Result.or"} \X ArgValues(Len(heap)))
                      \cup ({"Result.andThen", "Result.map", "Result.mapFailure", "Result.inspect",
                              "Result.inspectFailure"} \X AllCallbacks) :
              LET r == Invoke(heap, c[1], Ref(i), c[2])
              IN (r.out.kind = "return" /\ \A x \in DOMAIN r.calls : Accepts(c[2], r.calls[x])) =>
                   InstanceOf(r.heap, r.out.value, {"Success", "Failure"})
         /\ \A f \in {g \in ReturningCallbacks : g # Fn("double")} :
              LET payload == IF heap[i].cls = "Success" THEN heap[i].value ELSE heap[i].error
                  c == Call(heap, f, payload)
              IN /\ (heap[i].cls = "Success" /\ ~InstanceOf(c.heap, c.ret, {"Success", "Failure"})) =>
                      Invoke(heap, "Result.andThen", Ref(i), f) = Thr(c.heap, AssertionError, <<payload>>)
                 /\ c.ret.t # "boolean" =>
                      Invoke(heap, IF heap[i].cls = "Success" THEN "Result.isSuccessAnd" ELSE "Result.isFailureAnd",
                             Ref(i), f) = Thr(c.heap, AssertionError, <<payload>>)
  /\ (/\ lastOp.op \in {"Result.and", "Result.andThen", "Result.or", "Result.map", "Result.mapFailure",
                         "Result.inspect", "Result.inspectFailure"}
      /\ lastOp.out.kind = "return") =>
       InstanceOf(heap, lastOp.out.value, {"Success", "Failure"})

\* andThen(() => nothing()) was called on a Success: the callback ran and the call
\* threw an assertion error.
C29_Witness ==
  /\ lastOp.op = "Result.andThen"
  /\ lastOp.arg = Fn("thenNothing")
  /\ heap[lastOp.self.n].cls = "Success"
  /\ lastOp.calls = <<heap[lastOp.self.n].value>>
  /\ lastOp.out = Throw(AssertionError)

\* C30: when the callback passed to map, andThen, filter, inspect,
\* inspectFailure, mapFailure or a predicate query throws, the call throws that
\* same error: the callback was called once, with the payload, nothing was
\* constructed or returned, and every container is as it was.  On the variant
\* that does not call the callback the call returns as ever.
C30_CallbackErrorPropagates ==
  /\ lastOp = NoCall =>
       \A i \in DOMAIN heap :
         \A op \in CallbackOps \cap (IF heap[i].cls \in {"Nothing", "Something"} THEN MaybeOps ELSE ResultOps) :
           LET r == Invoke(heap, op, Ref(i), Fn("raise"))
               onError == op \in {"Result.inspectFailure", "Result.mapFailure", "Result.isFailureAnd"}
               holds == IF onError THEN heap[i].cls = "Failure" ELSE heap[i].cls \in {"Something", "Success"}
           IN IF holds
              THEN r = Thr(heap, CallbackError, <<IF onError THEN heap[i].error ELSE heap[i].value>>)
              ELSE r.out.kind = "return" /\ r.calls = <<>> /\ r.heap = heap
  /\ (lastOp.op \in CallbackOps /\ lastOp.arg = Fn("raise") /\ lastOp.calls # <<>>) =>
       /\ lastOp.out = Throw(CallbackError)
       /\ Len(lastOp.calls) = 1
       /\ lastOp.out.name # "AssertionError"

\* mapFailure of a callback that throws was called on a Failure: the callback ran
\* once, with the error, and the call threw the callback's error.
C30_Witness ==
  /\ lastOp.op = "Result.mapFailure"
  /\ lastOp.arg = Fn("raise")
  /\ heap[lastOp.self.n].cls = "Failure"
  /\ lastOp.calls = <<heap[lastOp.self.n].error>>
  /\ lastOp.out = Throw(CallbackError)

====
